---- MODULE Spec2Model ----
(***************************************************************************)
(* Model of the BeepMyPhone project-structure generator: the line-list      *)
(* parsers, the path classifier, the template-key resolver, the test        *)
(* import-path helpers and the drivers that populate the file tree.         *)
(* Python strings are sequences of one-character strings, so that lower(),  *)
(* strip(), split(), replace() and the substring tests are computed the way *)
(* the code computes them.                                                  *)
(***************************************************************************)
EXTENDS Integers, Sequences, FiniteSets, TLC

(***************************************************************************)
(* Python str primitives                                                    *)
(***************************************************************************)
UpperChars == <<"A","B","C","D","E","F","G","H","I","J","K","L","M","N","O","P","Q","R","S","T","U","V","W","X","Y","Z">>
LowerChars == <<"a","b","c","d","e","f","g","h","i","j","k","l","m","n","o","p","q","r","s","t","u","v","w","x","y","z">>
Whitespace == {" ", "\t", "\n", "\r"}

IsUpperChar(c) == \E i \in 1..26 : UpperChars[i] = c
IsLowerChar(c) == \E i \in 1..26 : LowerChars[i] = c
LowerChar(c) == IF IsUpperChar(c) THEN LowerChars[CHOOSE i \in 1..26 : UpperChars[i] = c] ELSE c
UpperChar(c) == IF IsLowerChar(c) THEN UpperChars[CHOOSE i \in 1..26 : LowerChars[i] = c] ELSE c

\* str.lower()
Lower(s) == [i \in 1..Len(s) |-> LowerChar(s[i])]

\* str.capitalize(): first character upper-cased, every other one lower-cased
Capitalize(s) == [i \in 1..Len(s) |-> IF i = 1 THEN UpperChar(s[i]) ELSE LowerChar(s[i])]

\* s[i:] with a 0-based Python index i
From(s, i) == SubSeq(s, i + 1, Len(s))

\* str.find(sub) + 1: position of the first occurrence, 0 when absent
Find(s, sub) ==
  LET hits == {i \in 1..(Len(s) - Len(sub) + 1) : SubSeq(s, i, i + Len(sub) - 1) = sub}
  IN IF hits = {} THEN 0 ELSE CHOOSE i \in hits : \A j \in hits : i <= j

\* str.rfind(sub) + 1
RFind(s, sub) ==
  LET hits == {i \in 1..(Len(s) - Len(sub) + 1) : SubSeq(s, i, i + Len(sub) - 1) = sub}
  IN IF hits = {} THEN 0 ELSE CHOOSE i \in hits : \A j \in hits : i >= j

\* sub in s
Contains(s, sub) == Find(s, sub) > 0

StartsWith(s, p) == Len(s) >= Len(p) /\ SubSeq(s, 1, Len(p)) = p
EndsWith(s, p) == Len(s) >= Len(p) /\ SubSeq(s, Len(s) - Len(p) + 1, Len(s)) = p

\* str.strip()
Strip(s) ==
  LET keep == {i \in 1..Len(s) : s[i] \notin Whitespace}
  IN IF keep = {} THEN <<>>
     ELSE SubSeq(s, CHOOSE i \in keep : \A j \in keep : i <= j,
                    CHOOSE i \in keep : \A j \in keep : i >= j)

\* str.split(sep)
RECURSIVE Split(_, _)
Split(s, sep) ==
  IF Find(s, sep) = 0 THEN <<s>>
  ELSE <<SubSeq(s, 1, Find(s, sep) - 1)>> \o Split(SubSeq(s, Find(s, sep) + Len(sep), Len(s)), sep)

\* sep.join(parts)
RECURSIVE Join(_, _)
Join(parts, sep) ==
  IF Len(parts) = 0 THEN <<>>
  ELSE IF Len(parts) = 1 THEN parts[1]
  ELSE parts[1] \o sep \o Join(Tail(parts), sep)

\* str.replace(old, "")
RECURSIVE Remove(_, _)
Remove(s, old) ==
  IF Find(s, old) = 0 THEN s
  ELSE SubSeq(s, 1, Find(s, old) - 1) \o Remove(SubSeq(s, Find(s, old) + Len(old), Len(s)), old)

\* str.replace(old, new)
RECURSIVE Replace(_, _, _)
Replace(s, old, new) ==
  IF Find(s, old) = 0 THEN s
  ELSE SubSeq(s, 1, Find(s, old) - 1) \o new
       \o Replace(SubSeq(s, Find(s, old) + Len(old), Len(s)), old, new)

\* str.rstrip(c) for a single character c
RECURSIVE RStrip(_, _)
RStrip(s, c) ==
  IF Len(s) > 0 /\ s[Len(s)] = c THEN RStrip(SubSeq(s, 1, Len(s) - 1), c) ELSE s

\* s * n
RECURSIVE Repeat(_, _)
Repeat(s, n) == IF n <= 0 THEN <<>> ELSE s \o Repeat(s, n - 1)

\* the elements of a sequence that satisfy a test, in order
RECURSIVE SelectIdx(_, _)
SelectIdx(s, keep) ==
  IF Len(s) = 0 THEN <<>>
  ELSE (IF Len(s) \in keep THEN SelectIdx(SubSeq(s, 1, Len(s) - 1), keep) \o <<s[Len(s)]>>
        ELSE SelectIdx(SubSeq(s, 1, Len(s) - 1), keep))

(***************************************************************************)
(* pathlib.PurePosixPath                                                    *)
(***************************************************************************)
Slash == <<"/">>
Dot == <<".">>

\* Path(s).parts: empty and "." components are dropped, a leading "/" is the root part
Components(raw) == SelectIdx(raw, {i \in 1..Len(raw) : raw[i] # <<>> /\ raw[i] # Dot})

PathParts(s) ==
  IF StartsWith(s, Slash) THEN <<Slash>> \o Components(Split(s, Slash))
  ELSE Components(Split(s, Slash))

\* str(Path(...)) of a parts tuple
PathStr(parts) ==
  IF Len(parts) = 0 THEN Dot
  ELSE IF parts[1] = Slash THEN Slash \o Join(Tail(parts), Slash)
  ELSE Join(parts, Slash)

\* base / rel: an absolute right operand replaces the left one
PathJoin(baseParts, rel) ==
  IF StartsWith(rel, Slash) THEN PathParts(rel) ELSE baseParts \o PathParts(rel)

\* Path.name
PathName(parts) ==
  IF Len(parts) = 0 \/ parts = <<Slash>> THEN <<>> ELSE parts[Len(parts)]

\* Path.suffix
SuffixAt(name, i) == IF 1 < i /\ i < Len(name) THEN SubSeq(name, i, Len(name)) ELSE <<>>
PathSuffix(parts) == SuffixAt(PathName(parts), RFind(PathName(parts), Dot))

\* Path.stem
StemAt(name, i) == IF 1 < i /\ i < Len(name) THEN SubSeq(name, 1, i - 1) ELSE name
PathStem(parts) == StemAt(PathName(parts), RFind(PathName(parts), Dot))

\* Path.parent
PathParent(parts) ==
  IF Len(parts) = 0 \/ parts = <<Slash>> THEN parts ELSE SubSeq(parts, 1, Len(parts) - 1)

(***************************************************************************)
(* helpers/file_parser.py: StructureParser                                  *)
(***************************************************************************)
\* a last test that answers with the template type of FileTypeDetector
fallback_type_sql(filename) == IF Contains(filename, <<".","s","q","l">>) THEN "sql" ELSE "generic"

\* the last two branches of _determine_file_type
fallback_type(filename) == IF Contains(filename, <<".","s","q","l">>) THEN "migration" ELSE "generic"

\* the special configuration files of _determine_file_type, "none" for any other name
config_file_type(filename) ==
     IF filename = <<"p","a","c","k","a","g","e",".","j","s","o","n">> THEN "package"
     ELSE IF filename = <<"t","s","c","o","n","f","i","g",".","j","s","o","n">> THEN "tsconfig"
     ELSE IF filename = <<"t","s","c","o","n","f","i","g",".","n","o","d","e",".","j","s","o","n">> THEN "tsconfig_node"
     ELSE IF filename = <<"v","i","t","e",".","c","o","n","f","i","g",".","t","s">> THEN "vite_config"
     ELSE IF filename = <<"j","e","s","t",".","c","o","n","f","i","g",".","j","s">> THEN "jest_config"
     ELSE IF filename = <<"t","a","i","l","w","i","n","d",".","c","o","n","f","i","g",".","j","s">> THEN "tailwind_config"
     ELSE "none"

\* '/tests/' in path_lower or '.test.' in filename or '.spec.' in filename
is_test_path(path_lower, filename) ==
  Contains(path_lower, <<"/","t","e","s","t","s","/">>) \/ Contains(filename, <<".","t","e","s","t",".">>) \/ Contains(filename, <<".","s","p","e","c",".">>)

\* a chain that looks for /models/ before /controllers/
directory_rules_models_first(path_lower, filename) ==
     IF Contains(path_lower, <<"/","c","o","m","p","o","n","e","n","t","s","/">>) /\ EndsWith(filename, <<".","t","s","x">>) THEN "component"
     ELSE IF Contains(path_lower, <<"/","s","e","r","v","i","c","e","s","/">>)
          THEN (IF Contains(filename, <<"b","a","s","e","s","e","r","v","i","c","e">>) THEN "base_service" ELSE "service")
     ELSE IF Contains(path_lower, <<"/","h","o","o","k","s","/">>) THEN "hook"
     ELSE IF Contains(path_lower, <<"/","p","a","g","e","s","/">>) THEN "page"
     ELSE IF Contains(path_lower, <<"/","m","o","d","e","l","s","/">>)
          THEN (IF Contains(filename, <<"b","a","s","e","m","o","d","e","l">>) THEN "base_model" ELSE "model")
     ELSE IF Contains(path_lower, <<"/","c","o","n","t","r","o","l","l","e","r","s","/">>)
          THEN (IF Contains(filename, <<"b","a","s","e","c","o","n","t","r","o","l","l","e","r">>) THEN "base_controller" ELSE "controller")
     ELSE IF Contains(path_lower, <<"/","r","e","p","o","s","i","t","o","r","i","e","s","/">>)
          THEN (IF Contains(filename, <<"b","a","s","e","r","e","p","o","s","i","t","o","r","y">>) THEN "base_repository" ELSE "repository")
     ELSE IF Contains(path_lower, <<"/","m","i","d","d","l","e","w","a","r","e","/">>) THEN "middleware"
     ELSE IF Contains(path_lower, <<"/","r","o","u","t","e","s","/">>) THEN "route"
     ELSE fallback_type(filename)

\* the tests of _determine_file_type on the directories of the path
directory_rules(path_lower, filename) ==
     IF Contains(path_lower, <<"/","c","o","m","p","o","n","e","n","t","s","/">>) /\ EndsWith(filename, <<".","t","s","x">>) THEN "component"
     ELSE IF Contains(path_lower, <<"/","s","e","r","v","i","c","e","s","/">>)
          THEN (IF Contains(filename, <<"b","a","s","e","s","e","r","v","i","c","e">>) THEN "base_service" ELSE "service")
     ELSE IF Contains(path_lower, <<"/","h","o","o","k","s","/">>) THEN "hook"
     ELSE IF Contains(path_lower, <<"/","p","a","g","e","s","/">>) THEN "page"
     ELSE IF Contains(path_lower, <<"/","c","o","n","t","r","o","l","l","e","r","s","/">>)
          THEN (IF Contains(filename, <<"b","a","s","e","c","o","n","t","r","o","l","l","e","r">>) THEN "base_controller" ELSE "controller")
     ELSE IF Contains(path_lower, <<"/","m","o","d","e","l","s","/">>)
          THEN (IF Contains(filename, <<"b","a","s","e","m","o","d","e","l">>) THEN "base_model" ELSE "model")
     ELSE IF Contains(path_lower, <<"/","r","e","p","o","s","i","t","o","r","i","e","s","/">>)
          THEN (IF Contains(filename, <<"b","a","s","e","r","e","p","o","s","i","t","o","r","y">>) THEN "base_repository" ELSE "repository")
     ELSE IF Contains(path_lower, <<"/","m","i","d","d","l","e","w","a","r","e","/">>) THEN "middleware"
     ELSE IF Contains(path_lower, <<"/","r","o","u","t","e","s","/">>) THEN "route"
     ELSE fallback_type(filename)

\* a chain that looks at the directories before the test indicators
file_type_rules_tests_last(path_lower, filename) ==
     IF config_file_type(filename) # "none" THEN config_file_type(filename)
     ELSE IF directory_rules(path_lower, filename) \notin {"generic", "migration"}
          THEN directory_rules(path_lower, filename)
     ELSE IF is_test_path(path_lower, filename) THEN "test"
     ELSE directory_rules(path_lower, filename)

\* the chain of tests of _determine_file_type on path_lower and filename
file_type_rules(path_lower, filename) ==
     IF config_file_type(filename) # "none" THEN config_file_type(filename)
     ELSE IF is_test_path(path_lower, filename) THEN "test"
     ELSE directory_rules(path_lower, filename)

\* StructureParser._determine_file_type(file_path)
determine_file_type(file_path) ==
  file_type_rules(Lower(file_path), Lower(PathName(PathParts(file_path))))

\* the separator of content.strip().split('\\n'): a backslash followed by the letter n
LineSeparator == <<"\\","n">>

\* one iteration of the loop of parse_structure_file: the entries a line contributes
parse_stripped_line(line) ==
     IF line = <<>> \/ StartsWith(line, <<"#">>) \/ StartsWith(line, <<"T","h","i","s"," ","d","o","c","u","m","e","n","t">>) THEN <<>>
     ELSE IF StartsWith(line, <<"#","#","#">>) \/ StartsWith(line, <<"#","#">>) THEN <<>>
     ELSE IF ~Contains(line, Slash) /\ ~Contains(line, Dot) THEN <<>>
     ELSE IF EndsWith(Strip(line), Slash) THEN <<>>
     ELSE <<[path |-> Strip(line), type |-> determine_file_type(Strip(line))]>>

parse_line(raw) == parse_stripped_line(Strip(raw))

\* a loop that puts the entries of a later line in front of the earlier ones
RECURSIVE parse_lines_newest_first(_)
parse_lines_newest_first(lines) ==
  IF Len(lines) = 0 THEN <<>>
  ELSE parse_lines_newest_first(Tail(lines)) \o parse_line(Head(lines))

RECURSIVE parse_lines(_)
parse_lines(lines) ==
  IF Len(lines) = 0 THEN <<>> ELSE parse_line(Head(lines)) \o parse_lines(Tail(lines))

\* StructureParser.parse_structure_file, for a structure file that exists with this content
parse_structure_file(content) == parse_lines(Split(Strip(content), LineSeparator))

(***************************************************************************)
(* generate_structure.py: ProjectStructureGenerator, the parser              *)
(***************************************************************************)
\* the chain of tests of the legacy _determine_file_type on filename, ext and name
legacy_file_type_rules(filename, ext, name) ==
     IF filename = <<"p","a","c","k","a","g","e",".","j","s","o","n">> THEN "package"
     ELSE IF filename = <<"t","s","c","o","n","f","i","g",".","j","s","o","n">> THEN "tsconfig"
     ELSE IF filename = <<"t","s","c","o","n","f","i","g",".","n","o","d","e",".","j","s","o","n">> THEN "tsconfig_node"
     ELSE IF filename = <<"v","i","t","e",".","c","o","n","f","i","g",".","t","s">> THEN "vite_config"
     ELSE IF filename = <<"j","e","s","t",".","c","o","n","f","i","g",".","j","s">> THEN "jest_config"
     ELSE IF Contains(filename, <<".","t","e","s","t",".">>) \/ Contains(filename, <<".","s","p","e","c",".">>) THEN "test"
     ELSE IF EndsWith(name, <<"c","o","n","t","r","o","l","l","e","r">>) THEN "controller"
     ELSE IF EndsWith(name, <<"s","e","r","v","i","c","e">>) THEN "service"
     ELSE IF EndsWith(name, <<"r","e","p","o","s","i","t","o","r","y">>) THEN "repository"
     ELSE IF EndsWith(name, <<"m","o","d","e","l">>) THEN "model"
     ELSE IF EndsWith(name, <<"c","o","m","p","o","n","e","n","t">>) \/ ext = <<".","t","s","x">> THEN "component"
     ELSE IF EndsWith(name, <<"h","o","o","k">>) \/ StartsWith(name, <<"u","s","e">>) THEN "hook"
     ELSE IF Contains(name, <<"m","i","d","d","l","e","w","a","r","e">>) THEN "middleware"
     ELSE IF Contains(name, <<"r","o","u","t","e">>) THEN "route"
     ELSE IF ext = <<".","s","q","l">> THEN "migration"
     ELSE "generic"

\* ProjectStructureGenerator._determine_file_type(filename)
legacy_determine_file_type(filename) ==
  legacy_file_type_rules(filename, Lower(PathSuffix(PathParts(filename))),
                         Lower(PathStem(PathParts(filename))))

\* skip_items of _parse_simple_format
skip_items ==
  { <<"R","E","A","D","M","E",".","m","d">>, <<"p","a","c","k","a","g","e","-","l","o","c","k",".","j","s","o","n">>, <<".","e","n","v">>, <<".","e","n","v",".","e","x","a","m","p","l","e">>,
    <<".","g","i","t","i","g","n","o","r","e">>, <<".","e","s","l","i","n","t","r","c",".","j","s">>, <<".","p","r","e","t","t","i","e","r","r","c">> }

FileListMarker == <<"#","#"," ","F","I","L","E","_","L","I","S","T">>

\* line[2:].strip() for a line that starts with a list marker
strip_bullet(line) ==
  IF StartsWith(line, <<"-"," ">>) \/ StartsWith(line, <<"*"," ">>) THEN Strip(From(line, 2)) ELSE line

\* line.split('#')[0].strip() for a line that holds a '#'
strip_comment(line) ==
  IF Contains(line, <<"#">>) THEN Strip(Split(line, <<"#">>)[1]) ELSE line

\* line.split('/')[-1]
last_segment(parts) == parts[Len(parts)]

\* the tests of _parse_simple_format on the cleaned line and its filename
simple_entry(line, filename) ==
     IF ~Contains(line, Slash) /\ ~Contains(line, Dot) THEN <<>>
     ELSE IF filename \in skip_items THEN <<>>
     ELSE IF Contains(filename, Dot) /\ ~StartsWith(filename, Dot)
          THEN <<[path |-> line, type |-> legacy_determine_file_type(filename)]>>
     ELSE <<>>

simple_clean_line(line) == simple_entry(line, last_segment(Split(line, Slash)))

\* the body of the loop of _parse_simple_format for a line met inside the file list
simple_line(stripped) ==
  IF StartsWith(stripped, <<"#">>) THEN <<>>
  ELSE simple_clean_line(strip_comment(strip_bullet(stripped)))

\* the loop of _parse_simple_format; in_file_list is the flag the marker line sets
RECURSIVE simple_lines(_, _)
simple_lines(lines, in_file_list) ==
  IF Len(lines) = 0 THEN <<>>
  ELSE IF Contains(Head(lines), FileListMarker) THEN simple_lines(Tail(lines), TRUE)
  ELSE IF ~in_file_list \/ Strip(Head(lines)) = <<>> THEN simple_lines(Tail(lines), in_file_list)
  ELSE simple_line(Strip(Head(lines))) \o simple_lines(Tail(lines), in_file_list)

\* ProjectStructureGenerator._parse_simple_format
parse_simple_format(content) == simple_lines(Split(content, <<"\n">>), FALSE)

(***************************************************************************)
(* helpers/path_utils.py, templates/base_templates.py, template_factory.py  *)
(***************************************************************************)
\* get_project_type(file_path), on the parts of the path
project_type_of(path_str) ==
     IF Contains(path_str, <<"/","f","r","o","n","t","e","n","d","/">>) THEN "frontend"
     ELSE IF Contains(path_str, <<"/","b","a","c","k","e","n","d","/">>) THEN "backend"
     ELSE IF Contains(path_str, <<"/","e","l","e","c","t","r","o","n","/">>) THEN "electron"
     ELSE "unknown"

get_project_type(parts) == project_type_of(Lower(PathStr(parts)))

\* ''.join(word.capitalize() for word in words)
RECURSIVE CapitalizeAll(_)
CapitalizeAll(words) ==
  IF Len(words) = 0 THEN <<>> ELSE Capitalize(Head(words)) \o CapitalizeAll(Tail(words))

\* BaseTemplate.get_class_name_from_filename(filename)
get_class_name_from_filename(filename) ==
  CapitalizeAll(Split(Remove(Remove(filename, <<".","t","e","s","t">>), <<".","s","p","e","c">>), <<"_">>))

\* tuple.index(x) + 1, 0 when x is not an element
IndexOf(parts, x) ==
  LET hits == {i \in 1..Len(parts) : parts[i] = x}
  IN IF hits = {} THEN 0 ELSE CHOOSE i \in hits : \A j \in hits : i <= j

s_tests == <<"t","e","s","t","s">>
ParentClimb == <<".",".","/">>

\* TestTemplate.calculate_component_import(test_path, component_name)
\* test_parts[tests_index + 1:-1]
AfterTests(parts, tests_index) == SubSeq(parts, tests_index + 1, Len(parts) - 1)

component_import_from(relative_parts, tests_index, component_name) ==
  IF tests_index > 0
  THEN Repeat(ParentClimb, Len(relative_parts) + 1) \o Join(relative_parts, Slash)
       \o Slash \o component_name
  ELSE <<".","/">> \o component_name

calculate_component_import(test_parts, component_name) ==
  component_import_from(AfterTests(test_parts, IndexOf(test_parts, s_tests)),
                        IndexOf(test_parts, s_tests), component_name)

\* BackendTestTemplate._calculate_backend_import_path(test_path, component_name)
backend_import_from(relative_parts, tests_index, component_name) ==
  IF tests_index > 0
  THEN (IF Len(relative_parts) > 0
        THEN Repeat(ParentClimb, Len(relative_parts) + 1) \o <<"s","r","c","/">>
             \o Join(relative_parts, Slash) \o Slash \o component_name
        ELSE <<".",".","/","s","r","c","/">> \o component_name)
  ELSE <<".","/">> \o component_name

calculate_backend_import_path(test_parts, component_name) ==
  backend_import_from(AfterTests(test_parts, IndexOf(test_parts, s_tests)),
                      IndexOf(test_parts, s_tests), component_name)

\* ProjectStructureGenerator._calculate_test_import_path(test_file_path, component_name)
\* after_tests with a leading 'unit' removed
drop_unit(after_tests) ==
  IF Len(after_tests) > 0 /\ after_tests[1] = <<"u","n","i","t">> THEN Tail(after_tests) ELSE after_tests

test_import_from(after_tests, climb, tests_index, component_name) ==
  IF tests_index > 0 /\ Len(after_tests) > 0
  THEN Repeat(ParentClimb, climb) \o Join(after_tests, Slash) \o Slash \o component_name
  ELSE <<".","/">> \o component_name

calculate_test_import_path(path_parts, component_name) ==
  test_import_from(drop_unit(AfterTests(path_parts, IndexOf(path_parts, s_tests))),
                   Len(path_parts) - IndexOf(path_parts, s_tests),
                   IndexOf(path_parts, s_tests), component_name)

\* calculate_relative_import(from_path, to_path)
s_src == <<"s","r","c">>

\* from_parts[src_index + 1:] of a directory's parts
UnderSrc(dir_parts, src_index) == SubSeq(dir_parts, src_index + 1, Len(dir_parts))

\* a fallback that climbs to the parent directory
simple_relative_path_climbing(to_parts) == ParentClimb \o PathStem(to_parts)

\* the fallback without an anchor: str(to_path.with_suffix('')), and './' + stem
\* from the except clause when with_suffix rejects an empty name
simple_relative_path(to_parts) ==
  IF PathName(to_parts) = <<>> THEN <<".","/">> \o PathStem(to_parts)
  ELSE Replace(PathStr(PathParent(to_parts) \o <<PathStem(to_parts)>>), <<"\\">>, Slash)

\* up_path, down_path and file_name put together and cleaned up
relative_import(from_rel, to_rel, file_name) ==
  RStrip(Replace(Repeat(ParentClimb, Len(from_rel)) \o Join(to_rel, Slash) \o Slash \o file_name,
                 <<"/","/">>, Slash), "/")

relative_import_from(from_dir, to_dir, src_index_from, src_index_to, to_parts) ==
  IF src_index_from = 0 \/ src_index_to = 0 THEN simple_relative_path(to_parts)
  ELSE relative_import(UnderSrc(from_dir, src_index_from), UnderSrc(to_dir, src_index_to),
                       PathStem(to_parts))

calculate_relative_import(from_parts, to_parts) ==
  relative_import_from(PathParent(from_parts), PathParent(to_parts),
                       IndexOf(PathParent(from_parts), s_src),
                       IndexOf(PathParent(to_parts), s_src), to_parts)

\* TemplateFactory._resolve_template_key(file_path, file_type, project_type)
\* a test key that looks for 'e2e' before 'integration'
test_key_rules_e2e_first(filename, project_type) ==
     IF Contains(filename, <<"e","2","e">>) THEN "e2e_test"
     ELSE IF Contains(filename, <<"i","n","t","e","g","r","a","t","i","o","n">>) THEN "integration_test"
     ELSE IF Contains(filename, <<"p","e","r","f","o","r","m","a","n","c","e">>) \/ Contains(filename, <<"l","o","a","d">>)
          THEN "performance_test"
     ELSE IF project_type = "frontend" THEN "react_test"
     ELSE "backend_test"

\* the branch of file_type 'test'
test_key_rules(filename, project_type) ==
     IF Contains(filename, <<"i","n","t","e","g","r","a","t","i","o","n">>) THEN "integration_test"
     ELSE IF Contains(filename, <<"e","2","e">>) THEN "e2e_test"
     ELSE IF Contains(filename, <<"p","e","r","f","o","r","m","a","n","c","e">>) \/ Contains(filename, <<"l","o","a","d">>)
          THEN "performance_test"
     ELSE IF project_type = "frontend" THEN "react_test"
     ELSE "backend_test"

\* the branch of file_type 'generic'; filename is file_path.name.lower()
generic_key_rules(filename) ==
     IF filename = <<"i","n","d","e","x">> THEN "index"
     ELSE IF Contains(filename, <<"t","y","p","e","s">>) \/ EndsWith(filename, <<"t","y","p","e","s">>) THEN "types"
     ELSE IF Contains(filename, <<"c","o","n","s","t","a","n","t","s">>) \/ Contains(filename, <<"c","o","n","f","i","g">>) THEN "constants"
     ELSE IF Contains(filename, <<"u","t","i","l","s">>) \/ Contains(filename, <<"h","e","l","p","e","r","s">>) THEN "utility"
     ELSE "generic"

\* the branches of _resolve_template_key that test file_type
type_key_rules(filename, file_type, project_type) ==
     IF file_type = "package" THEN "package_json"
     ELSE IF file_type = "tsconfig" THEN "tsconfig"
     ELSE IF file_type = "tsconfig_node" THEN "tsconfig_node"
     ELSE IF file_type = "service"
          THEN (IF project_type = "frontend" THEN "frontend_service" ELSE "backend_service")
     ELSE IF file_type = "test" THEN test_key_rules(filename, project_type)
     ELSE IF file_type = "component" THEN "react_component"
     ELSE IF file_type = "hook" THEN "react_hook"
     ELSE IF file_type = "controller" THEN "controller"
     ELSE IF file_type = "model" THEN "model"
     ELSE IF file_type = "repository" THEN "repository"
     ELSE IF file_type = "middleware" THEN "middleware"
     ELSE IF file_type = "route" THEN "route"
     ELSE IF file_type = "generic" THEN generic_key_rules(filename)
     ELSE "generic"

\* a resolution that lets the file type decide before the base-class names
template_key_rules_type_first(filename, file_type, project_type) ==
     IF type_key_rules(filename, file_type, project_type) # "generic"
     THEN type_key_rules(filename, file_type, project_type)
     ELSE IF Contains(filename, <<"b","a","s","e","s","e","r","v","i","c","e">>)
     THEN (IF project_type = "frontend" THEN "frontend_base_service" ELSE "backend_base_service")
     ELSE IF Contains(filename, <<"b","a","s","e","c","o","n","t","r","o","l","l","e","r">>) THEN "base_controller"
     ELSE "generic"

\* the chain of tests of _resolve_template_key: the base-class names, then file_type
template_key_rules(filename, file_type, project_type) ==
     IF Contains(filename, <<"b","a","s","e","s","e","r","v","i","c","e">>)
     THEN (IF project_type = "frontend" THEN "frontend_base_service" ELSE "backend_base_service")
     ELSE IF Contains(filename, <<"b","a","s","e","c","o","n","t","r","o","l","l","e","r">>) THEN "base_controller"
     ELSE type_key_rules(filename, file_type, project_type)

resolve_template_key(parts, file_type, project_type) ==
  template_key_rules(Lower(PathName(parts)), file_type, project_type)

\* the keys of TemplateFactory.templates after _register_templates
registered_templates ==
  { "react_component", "react_test", "react_hook", "frontend_service", "frontend_base_service",
    "controller", "base_controller", "backend_service", "backend_base_service", "model",
    "repository", "package_json", "tsconfig", "tsconfig_node", "backend_test",
    "integration_test", "e2e_test", "performance_test", "utility", "types", "constants",
    "index", "middleware", "route" }

\* ControllerTemplate.generate: the content is the controller body declaring `name`
ControllerTemplate_generate(parts) ==
  [tpl |-> "controller", name |-> get_class_name_from_filename(PathStem(parts)), import |-> <<>>]

\* the templates whose body declares get_class_name_from_filename(file_path.stem)
ClassNamedTemplates ==
  { "react_component", "frontend_service", "backend_service", "model", "repository",
    "utility", "types", "middleware", "route" }

\* TemplateFactory.generate_content(file_path, file_type): the template that
\* renders the body, the type name the body declares and the import it makes
render(key, parts, stem) ==
     IF key = "controller" THEN ControllerTemplate_generate(parts)
     ELSE IF key \in ClassNamedTemplates
          THEN [tpl |-> key, name |-> get_class_name_from_filename(stem), import |-> <<>>]
     ELSE IF key = "react_test"
          THEN [tpl |-> key, name |-> get_class_name_from_filename(Remove(stem, <<".","t","e","s","t">>)),
                import |-> calculate_component_import(parts,
                             get_class_name_from_filename(Remove(stem, <<".","t","e","s","t">>)))]
     ELSE IF key = "backend_test"
          THEN [tpl |-> key,
                name |-> get_class_name_from_filename(Remove(Remove(stem, <<".","t","e","s","t">>), <<".","s","p","e","c">>)),
                import |-> calculate_backend_import_path(parts,
                             Remove(Remove(stem, <<".","t","e","s","t">>), <<".","s","p","e","c">>))]
     ELSE IF key \in registered_templates THEN [tpl |-> key, name |-> stem, import |-> <<>>]
     ELSE [tpl |-> "generic", name |-> Capitalize(stem), import |-> <<>>]

generate_content(parts, file_type) ==
  render(resolve_template_key(parts, file_type, get_project_type(parts)), parts, PathStem(parts))

\* the text a registered template's generate() opens its content with
template_opening(key) ==
     IF key \in {"react_component", "react_test"} THEN <<"i","m","p","o","r","t"," ","R","e","a","c","t"," ","f","r","o","m"," ","'","r","e","a","c","t","'">>
     ELSE IF key = "react_hook" THEN <<"i","m","p","o","r","t"," ","{"," ","u","s","e","S","t","a","t","e",","," ","u","s","e","E","f","f","e","c","t"," ","}"," ","f","r","o","m"," ","'","r","e","a","c","t","'">>
     ELSE IF key = "frontend_service" THEN <<"i","m","p","o","r","t"," ","{"," ","B","a","s","e","S","e","r","v","i","c","e"," ","}"," ","f","r","o","m"," ","'",".",".","/","b","a","s","e","/","B","a","s","e","S","e","r","v","i","c","e","'">>
     ELSE IF key \in {"frontend_base_service", "backend_base_service"}
          THEN <<"e","x","p","o","r","t"," ","a","b","s","t","r","a","c","t"," ","c","l","a","s","s"," ","B","a","s","e","S","e","r","v","i","c","e"," ","{">>
     ELSE IF key \in {"controller", "base_controller"}
          THEN <<"i","m","p","o","r","t"," ","{"," ","R","e","q","u","e","s","t",","," ","R","e","s","p","o","n","s","e"," ","}"," ","f","r","o","m"," ","'","e","x","p","r","e","s","s","'">>
     ELSE IF key = "backend_service" THEN <<"i","m","p","o","r","t"," ","{"," ","B","a","s","e","S","e","r","v","i","c","e"," ","}"," ","f","r","o","m"," ","'",".","/","b","a","s","e","/","B","a","s","e","S","e","r","v","i","c","e","'">>
     ELSE IF key = "model" THEN <<"i","m","p","o","r","t"," ","{"," ","B","a","s","e","M","o","d","e","l"," ","}"," ","f","r","o","m"," ","'",".","/","B","a","s","e","M","o","d","e","l","'">>
     ELSE IF key = "repository" THEN <<"i","m","p","o","r","t"," ","{"," ","B","a","s","e","R","e","p","o","s","i","t","o","r","y"," ","}"," ","f","r","o","m"," ","'",".","/","b","a","s","e","/","B","a","s","e","R","e","p","o","s","i","t","o","r","y","'">>
     ELSE IF key \in {"package_json", "tsconfig", "tsconfig_node"} THEN <<"{">>
     ELSE IF key = "backend_test"
          THEN <<"i","m","p","o","r","t"," ","{"," ","d","e","s","c","r","i","b","e",","," ","i","t",","," ","e","x","p","e","c","t",","," ","b","e","f","o","r","e","E","a","c","h",","," ","a","f","t","e","r","E","a","c","h"," ","}"," ","f","r","o","m"," ","'","@","j","e","s","t","/","g","l","o","b","a","l","s","'">>
     ELSE IF key = "integration_test" THEN <<"i","m","p","o","r","t"," ">>
     ELSE IF key = "e2e_test"
          THEN <<"i","m","p","o","r","t"," ","{"," ","d","e","s","c","r","i","b","e",","," ","i","t",","," ","e","x","p","e","c","t",","," ","b","e","f","o","r","e","A","l","l",","," ","a","f","t","e","r","A","l","l",","," ","b","e","f","o","r","e","E","a","c","h"," ","}"," ","f","r","o","m"," ","'","@","j","e","s","t","/","g","l","o","b","a","l","s","'">>
     ELSE IF key = "performance_test"
          THEN <<"i","m","p","o","r","t"," ","{"," ","d","e","s","c","r","i","b","e",","," ","i","t",","," ","e","x","p","e","c","t",","," ","b","e","f","o","r","e","E","a","c","h"," ","}"," ","f","r","o","m"," ","'","@","j","e","s","t","/","g","l","o","b","a","l","s","'">>
     ELSE IF key \in {"utility", "types", "constants", "index"} THEN <<"/","*","*">>
     ELSE IF key = "middleware" THEN <<"i","m","p","o","r","t"," ","{"," ","R","e","q","u","e","s","t",","," ","R","e","s","p","o","n","s","e",","," ","N","e","x","t","F","u","n","c","t","i","o","n"," ","}"," ","f","r","o","m"," ","'","e","x","p","r","e","s","s","'">>
     ELSE IF key = "route" THEN <<"i","m","p","o","r","t"," ","{"," ","R","o","u","t","e","r"," ","}"," ","f","r","o","m"," ","'","e","x","p","r","e","s","s","'">>
     ELSE <<>>

\* a fallback that writes nothing for a suffix it does not know
generic_template_bare(filename, extension) ==
     IF extension = <<".","j","s","o","n">> THEN <<"{","\n"," "," ","\"","T","O","D","O","\"",":"," ","\"","A","d","d"," ","J","S","O","N"," ","c","o","n","f","i","g","u","r","a","t","i","o","n","\"","\n","}","\n">>
     ELSE <<>>

\* TemplateFactory._generate_generic_template(file_path, file_type), with
\* filename = file_path.stem and extension = file_path.suffix
generic_template(filename, extension) ==
     IF extension = <<".","t","s">>
     THEN <<"/","/"," ">> \o filename \o <<"\n","/","/"," ","T","O","D","O",":"," ","I","m","p","l","e","m","e","n","t"," ">> \o filename
          \o <<"\n","\n","e","x","p","o","r","t"," ","c","l","a","s","s"," ">> \o Capitalize(filename)
          \o <<" ","{","\n"," "," ","/","/"," ","T","O","D","O",":"," ","A","d","d"," ","i","m","p","l","e","m","e","n","t","a","t","i","o","n","\n","}","\n","\n","e","x","p","o","r","t"," ","d","e","f","a","u","l","t"," ">> \o Capitalize(filename) \o <<"\n">>
     ELSE IF extension = <<".","t","s","x">>
     THEN <<"i","m","p","o","r","t"," ","R","e","a","c","t"," ","f","r","o","m"," ","'","r","e","a","c","t","'","\n","\n","e","x","p","o","r","t"," ","c","o","n","s","t"," ">> \o Capitalize(filename)
          \o <<" ","="," ","(",")"," ","=",">"," ","{","\n"," "," ","r","e","t","u","r","n"," ","(","\n"," "," "," "," ","<","d","i","v",">","\n"," "," "," "," "," "," ","{","/","*"," ","T","O","D","O",":"," ","I","m","p","l","e","m","e","n","t"," ">> \o filename
          \o <<" ","c","o","m","p","o","n","e","n","t"," ","*","/","}","\n"," "," "," "," "," "," ","<","h","1",">">> \o filename
          \o <<"<","/","h","1",">","\n"," "," "," "," ","<","/","d","i","v",">","\n"," "," ",")","\n","}","\n","\n","e","x","p","o","r","t"," ","d","e","f","a","u","l","t"," ">> \o Capitalize(filename) \o <<"\n">>
     ELSE IF extension = <<".","j","s","o","n">> THEN <<"{","\n"," "," ","\"","T","O","D","O","\"",":"," ","\"","A","d","d"," ","J","S","O","N"," ","c","o","n","f","i","g","u","r","a","t","i","o","n","\"","\n","}","\n">>
     ELSE IF extension = <<".","c","s","s">>
     THEN <<"/","*"," ">> \o filename \o <<" ","*","/","\n","/","*"," ","T","O","D","O",":"," ","A","d","d"," ","C","S","S"," ","s","t","y","l","e","s"," ","f","o","r"," ">> \o filename
          \o <<" ","*","/","\n","\n",".">> \o Lower(filename) \o <<" ","{","\n"," "," ","/","*"," ","A","d","d"," ","s","t","y","l","e","s"," ","h","e","r","e"," ","*","/","\n","}","\n">>
     ELSE IF extension = <<".","s","q","l">>
     THEN <<"-","-"," ">> \o filename \o <<"\n","-","-"," ","T","O","D","O",":"," ","A","d","d"," ","S","Q","L"," ","f","o","r"," ">> \o filename
          \o <<"\n","\n","C","R","E","A","T","E"," ","T","A","B","L","E"," ","I","F"," ","N","O","T"," ","E","X","I","S","T","S"," ","e","x","a","m","p","l","e"," ","(","\n"," "," ","i","d"," ","I","N","T","E","G","E","R"," ","P","R","I","M","A","R","Y"," ","K","E","Y",",","\n"," "," ","c","r","e","a","t","e","d","_","a","t"," ","D","A","T","E","T","I","M","E"," ","D","E","F","A","U","L","T"," ","C","U","R","R","E","N","T","_","T","I","M","E","S","T","A","M","P","\n",")",";","\n">>
     ELSE <<"#"," ">> \o filename \o <<"\n","#"," ","T","O","D","O",":"," ","I","m","p","l","e","m","e","n","t"," ">> \o filename \o <<"\n">>

\* generate_content as text: the opening of the registered template's content,
\* or the whole fallback content when templates.get(key) is None
content_text(key, parts) ==
  IF key \in registered_templates THEN template_opening(key)
  ELSE generic_template(PathStem(parts), PathSuffix(parts))

generate_content_text(parts, file_type) ==
  content_text(resolve_template_key(parts, file_type, get_project_type(parts)), parts)

\* the suffixes of ProjectStructureGenerator.templates
legacy_templates ==
  { <<".","t","s">>, <<".","t","s","x">>, <<".","j","s">>, <<".","j","s","x">>, <<".","j","s","o","n">>, <<".","m","d">>, <<".","s","q","l">>, <<".","c","s","s">>,
    <<".","h","t","m","l">>, <<".","s","h">>, <<".","y","m","l">>, <<".","y","a","m","l">> }

\* ProjectStructureGenerator._get_template_content(file_path, file_type)
legacy_render(ext, stem, parts, file_type) ==
     IF ext \in {<<".","t","s","x">>, <<".","j","s","x">>} /\ file_type = "test"
     THEN [tpl |-> "legacy_test", name |-> Remove(stem, <<".","t","e","s","t">>),
           import |-> calculate_test_import_path(parts, Remove(stem, <<".","t","e","s","t">>))]
     ELSE IF ext \in legacy_templates
          THEN [tpl |-> "legacy_" \o file_type, name |-> stem, import |-> <<>>]
     ELSE [tpl |-> "legacy_generic", name |-> stem, import |-> <<>>]

get_template_content(parts, file_type) ==
  legacy_render(Lower(PathSuffix(parts)), PathStem(parts), parts, file_type)

(***************************************************************************)
(* Bounds and input sets                                                    *)
(***************************************************************************)
\* the longest generated structure document, in lines
MaxDocLines == 2
\* the number of times the command is run against the same directory
MaxRuns == 2

NL == <<"\n">>

L_UserController == <<"s","r","c","/","c","o","n","t","r","o","l","l","e","r","s","/","U","s","e","r","C","o","n","t","r","o","l","l","e","r",".","t","s">>
L_BaseController == <<"s","r","c","/","c","o","n","t","r","o","l","l","e","r","s","/","b","a","s","e","/","B","a","s","e","C","o","n","t","r","o","l","l","e","r",".","t","s">>
L_User == <<"s","r","c","/","m","o","d","e","l","s","/","U","s","e","r",".","t","s">>

\* the lines the generated documents of the driver are made of: a plain file,
\* a file in a directory, and a file below the first one
DriverLines == { <<"a",".","t","s">>, <<"d","/","b",".","t","s">>, <<"a",".","t","s","/","c",".","t","s">> }

RECURSIVE SeqsUpTo(_, _)
SeqsUpTo(S, n) ==
  IF n = 0 THEN {<<>>}
  ELSE LET shorter == SeqsUpTo(S, n - 1)
       IN shorter \cup {Append(s, x) : s \in {t \in shorter : Len(t) = n - 1}, x \in S}

\* a document in one of three layouts: one path per line; the same below a
\* FILE_LIST heading; the paths separated by a backslash and the letter n
DocFormats == {"plain", "marked", "escaped"}
MakeDoc(lines, fmt) ==
  IF fmt = "plain" THEN Join(lines, NL)
  ELSE IF fmt = "marked" THEN FileListMarker \o NL \o Join(lines, NL)
  ELSE Join(lines, LineSeparator)

ThreeLines == <<L_UserController, L_BaseController, L_User>>

DriverDocs ==
  {MakeDoc(ls, f) : ls \in SeqsUpTo(DriverLines, MaxDocLines) \cup {ThreeLines}, f \in DocFormats}

Projects == {"frontend", "backend"}
RelativeRoot == <<>>
AbsoluteRoot == <<Slash, <<"p">>>>

(***************************************************************************)
(* State                                                                    *)
(***************************************************************************)
VARIABLES
  impl,       \* "v2": v2/generate_structure_v2.py, "legacy": generate_structure.py
  selection,  \* the command line: "frontend", "backend" or "all"
  root,       \* project_root, as path parts
  doc,        \* the content of PROJECT_STRUCTURE_SIMPLE.md
  present,    \* the projects whose docs/ directory holds that document
  roDirs,     \* existing directories in which no file can be created
  disk0,      \* the regular files on disk before the first run
  fs,         \* the regular files on disk: path parts -> content
  dirs,       \* the directories on disk
  created,    \* created_files
  skipped,    \* skipped_files
  errors,     \* the paths of the "Error creating ..." lines printed so far
  pc,         \* "idle", "project", "entries", "done", "killed"
  queue,      \* the projects still to generate in this run
  files,      \* the entries being created
  idx,        \* the position of the loop over files
  last,       \* what the last processed entry did
  run,        \* the number of runs started
  log,        \* one record per run that ended
  op, arg, ret  \* a function of the generator applied to an input

env == <<impl, selection, root, doc, present, roDirs, disk0>>
disk == <<fs, dirs>>
pure == <<op, arg, ret>>
vars == <<impl, selection, root, doc, present, roDirs, disk0, fs, dirs, created, skipped, errors,
          pc, queue, files, idx, last, run, log, op, arg, ret>>

\* file contents: the body a template renders, a hand-written body, or nothing
HandWritten == [tpl |-> "hand", name |-> <<>>, import |-> <<>>]
ZeroSize == [tpl |-> "empty", name |-> <<>>, import |-> <<>>]
Scaffolded == [tpl |-> "scaffold", name |-> <<>>, import |-> <<>>]
Absent == [tpl |-> "absent", name |-> <<>>, import |-> <<>>]
\* last before any entry is processed. repeat: an earlier entry of the same
\* list has the same path; seen: the destination is already in created_files
\* or skipped_files of this run
NoEntry == [dest |-> <<>>, path |-> <<>>, before |-> Absent, outcome |-> "none", run |-> 0,
            repeat |-> FALSE, seen |-> FALSE]

Range(s) == {s[i] : i \in 1..Len(s)}

BasePath(r, project) == r \o <<IF project = "frontend" THEN <<"f","r","o","n","t","e","n","d">> ELSE <<"b","a","c","k","e","n","d">>, <<"a","p","p">>>>

\* a path and the directories above it
Prefixes(parts) == {SubSeq(parts, 1, k) : k \in 1..Len(parts)}

ContentAt(f, p) == IF p \in DOMAIN f THEN f[p] ELSE Absent

\* full_path.exists() and full_path.stat().st_size > 0
ExistsNonEmpty(f, d, p) == (p \in DOMAIN f /\ f[p].tpl # "empty") \/ p \in d

\* Path.mkdir(parents=True, exist_ok=True) raises when a file is in the way
MkdirFails(f, p) == \E q \in Prefixes(p) : q \in DOMAIN f

\* open(full_path, 'w') raises where no file can be created
OpenFails(f, ro, p) == p \notin DOMAIN f /\ PathParent(p) \in ro

(***************************************************************************)
(* generate_structure_v2.py: ProjectGenerator                               *)
(***************************************************************************)
\* a test that protects only the files that hold nothing
should_skip_when_empty(f, d, p) == (p \in DOMAIN f /\ f[p].tpl = "empty") \/ p \in d

\* a test that protects nothing
should_skip_never(f, d, p) == FALSE

\* a test that protects every existing file, also one that holds nothing
should_skip_existing(f, d, p) == p \in DOMAIN f \/ p \in d

\* the test of _create_file and create_file_structure that protects a file
should_skip(f, d, p) == ExistsNonEmpty(f, d, p)

\* a write that leaves the new file alone on the disk
write_entry_alone(f, d, ro, full_path, made, content) ==
  IF MkdirFails(f, PathParent(full_path))
  THEN [outcome |-> "raised", fs |-> f, dirs |-> d, dest |-> full_path]
  ELSE IF should_skip(f, made, full_path)
  THEN [outcome |-> "skipped", fs |-> f, dirs |-> made, dest |-> full_path]
  ELSE IF OpenFails(f, ro, full_path)
  THEN [outcome |-> "failed", fs |-> f, dirs |-> made, dest |-> full_path]
  ELSE [outcome |-> "created", dirs |-> made, dest |-> full_path, fs |-> (full_path :> content)]

\* a write that records the path as created and leaves the file empty
write_entry_without_body(f, d, ro, full_path, made, content) ==
  IF MkdirFails(f, PathParent(full_path))
  THEN [outcome |-> "raised", fs |-> f, dirs |-> d, dest |-> full_path]
  ELSE IF should_skip(f, made, full_path)
  THEN [outcome |-> "skipped", fs |-> f, dirs |-> made, dest |-> full_path]
  ELSE IF OpenFails(f, ro, full_path)
  THEN [outcome |-> "failed", fs |-> f, dirs |-> made, dest |-> full_path]
  ELSE [outcome |-> "created", dirs |-> made, dest |-> full_path, fs |-> (full_path :> ZeroSize) @@ f]

\* the steps _create_file and create_file_structure share: mkdir, the test
\* for an existing file, then the write of the rendered content inside try;
\* "raised" is an exception that leaves the method
write_entry(f, d, ro, full_path, made, content) ==
  IF MkdirFails(f, PathParent(full_path))
  THEN [outcome |-> "raised", fs |-> f, dirs |-> d, dest |-> full_path]
  ELSE IF should_skip(f, made, full_path)
  THEN [outcome |-> "skipped", fs |-> f, dirs |-> made, dest |-> full_path]
  ELSE IF OpenFails(f, ro, full_path)
  THEN [outcome |-> "failed", fs |-> f, dirs |-> made, dest |-> full_path]
  ELSE [outcome |-> "created", dirs |-> made, dest |-> full_path, fs |-> (full_path :> content) @@ f]

create_file_at(f, d, ro, full_path, file_type) ==
  write_entry(f, d, ro, full_path, d \cup Prefixes(PathParent(full_path)),
              generate_content(full_path, file_type))

\* ProjectGenerator._create_file(base_path, relative_path, file_type)
create_file(f, d, ro, base, entry) == create_file_at(f, d, ro, PathJoin(base, entry.path), entry.type)

\* the body of the loop of ProjectStructureGenerator.create_file_structure
legacy_create_file_at(f, d, ro, full_path, file_type) ==
  write_entry(f, d, ro, full_path, d \cup Prefixes(PathParent(full_path)),
              get_template_content(full_path, file_type))

legacy_create_file(f, d, ro, base, entry) ==
  legacy_create_file_at(f, d, ro, PathJoin(base, entry.path), entry.type)

\* generate_project (v2) runs the frontend first, main (legacy) the backend
ProjectOrder(i, sel) ==
  IF sel = "frontend" THEN <<"frontend">>
  ELSE IF sel = "backend" THEN <<"backend">>
  ELSE IF i = "v2" THEN <<"frontend", "backend">>
  ELSE <<"backend", "frontend">>

\* what main leaves behind when it returns
RunRecord(code, summary, c, s, e, f) ==
  [exit |-> code, summary |-> summary, created |-> c, skipped |-> s, errors |-> e, fs |-> f]

\* a generator that keeps the lists of the one before it
reused_generator(previous) == previous

\* ProjectGenerator.__init__ and ProjectStructureGenerator.__init__: the lists
\* of a new generator, whatever an earlier generator held
new_generator(previous) == [created_files |-> <<>>, skipped_files |-> <<>>]

\* main: a new generator, with empty lists, for every run of the command
StartRun ==
  /\ pc \in {"idle", "done", "killed"}
  /\ run < MaxRuns
  /\ run' = run + 1
  /\ \E generator \in {new_generator([created_files |-> created, skipped_files |-> skipped])} :
        /\ created' = generator.created_files
        /\ skipped' = generator.skipped_files
  /\ errors' = <<>>
  /\ queue' = ProjectOrder(impl, selection)
  /\ files' = <<>>
  /\ idx' = 0
  /\ pc' = "project"
  /\ UNCHANGED <<env, disk, last, log, pure>>

\* _generate_from_structure up to its loop: a document that cannot be read is
\* reported and the project is left out
GenerateFromStructure ==
  /\ impl = "v2"
  /\ pc = "project"
  /\ queue # <<>>
  /\ IF Head(queue) \notin present
     THEN /\ errors' = Append(errors, [kind |-> "parse", path |-> <<>>])
          /\ queue' = Tail(queue)
          /\ UNCHANGED <<files, idx, pc>>
     ELSE \E parsed \in {parse_structure_file(doc)} :
             /\ files' = parsed
             /\ idx' = 1
             /\ IF Len(parsed) = 0
                THEN queue' = Tail(queue) /\ pc' = "project"
                ELSE queue' = queue /\ pc' = "entries"
             /\ UNCHANGED errors
  /\ UNCHANGED <<env, disk, created, skipped, last, run, log, pure>>

\* one call of _create_file from the loop of _generate_from_structure; an
\* exception that leaves it ends main with exit code 1 and without a summary
CreateFile ==
  /\ impl = "v2"
  /\ pc = "entries"
  /\ \E r \in {create_file(fs, dirs, roDirs, BasePath(root, Head(queue)), files[idx])} :
        /\ fs' = r.fs
        /\ dirs' = r.dirs
        /\ last' = [dest |-> r.dest, path |-> files[idx].path, before |-> ContentAt(fs, r.dest),
                    outcome |-> r.outcome, run |-> run,
                    repeat |-> \E j \in 1..(idx - 1) : files[j].path = files[idx].path,
                    seen |-> PathStr(r.dest) \in Range(created) \cup Range(skipped)]
        /\ created' = IF r.outcome = "created" THEN Append(created, PathStr(r.dest)) ELSE created
        /\ skipped' = IF r.outcome = "skipped" THEN Append(skipped, PathStr(r.dest)) ELSE skipped
        /\ errors' = IF r.outcome = "failed" THEN Append(errors, [kind |-> "create", path |-> files[idx].path])
                     ELSE IF r.outcome = "raised" THEN Append(errors, [kind |-> "fatal", path |-> files[idx].path])
                     ELSE errors
        /\ IF r.outcome = "raised"
           THEN /\ pc' = "done"
                /\ log' = Append(log, RunRecord(1, FALSE, created', skipped', errors', fs'))
                /\ UNCHANGED <<queue, idx>>
           ELSE /\ idx' = idx + 1
                /\ IF idx = Len(files)
                   THEN queue' = Tail(queue) /\ pc' = "project"
                   ELSE queue' = queue /\ pc' = "entries"
                /\ UNCHANGED log
  /\ UNCHANGED <<env, files, run, pure>>

\* print_summary and the return 0 of main
PrintSummary ==
  /\ pc = "project"
  /\ queue = <<>>
  /\ pc' = "done"
  /\ log' = Append(log, RunRecord(0, TRUE, created, skipped, errors, fs))
  /\ UNCHANGED <<env, disk, created, skipped, errors, queue, files, idx, last, run, pure>>

\* the process is terminated from outside between two entries or two
\* projects: exit(main()) is never reached, the lists die with the process,
\* and the files written so far stay; the record has the status of a kill
Terminate ==
  /\ pc \in {"project", "entries"}
  /\ pc' = "killed"
  /\ log' = Append(log, RunRecord(137, FALSE, created, skipped, errors, fs))
  /\ UNCHANGED <<env, disk, created, skipped, errors, queue, files, idx, last, run, pure>>

(***************************************************************************)
(* generate_structure.py: main                                              *)
(***************************************************************************)
\* react_scaffold_files of should_skip_file
react_scaffold_files ==
  { <<"p","a","c","k","a","g","e",".","j","s","o","n">>, <<"v","i","t","e",".","c","o","n","f","i","g",".","t","s">>, <<"t","s","c","o","n","f","i","g",".","j","s","o","n">>, <<"t","s","c","o","n","f","i","g",".","n","o","d","e",".","j","s","o","n">>,
    <<"s","r","c","/","m","a","i","n",".","t","s","x">>, <<"s","r","c","/","A","p","p",".","t","s","x">>, <<"i","n","d","e","x",".","h","t","m","l">>, <<"p","u","b","l","i","c","/","v","i","t","e",".","s","v","g">>, <<"s","r","c","/","v","i","t","e","-","e","n","v",".","d",".","t","s">> }

\* ProjectStructureGenerator.should_skip_file(file_path, project_type)
should_skip_file(file_path, project_type) ==
  project_type = "frontend" /\ file_path \in react_scaffold_files

\* domain_files of main
RECURSIVE domain_files(_, _)
domain_files(entries, project_type) ==
  IF Len(entries) = 0 THEN <<>>
  ELSE (IF should_skip_file(Head(entries).path, project_type) THEN <<>> ELSE <<Head(entries)>>)
       \o domain_files(Tail(entries), project_type)

\* the two files scaffold_react_project looks for
ScaffoldMarks(base) == {base \o <<<<"p","a","c","k","a","g","e",".","j","s","o","n">>>>, base \o <<<<"s","r","c">>, <<"m","a","i","n",".","t","s","x">>>>}

\* the part of main that prepares one project: the external scaffolder for the
\* frontend, then parse_project_structure. The simple-format document is the
\* only structure document on disk; FileNotFoundError ends main with code 1.
LegacyGenerateProject ==
  /\ impl = "legacy"
  /\ pc = "project"
  /\ queue # <<>>
  /\ \E project \in {Head(queue)}, ok \in BOOLEAN :
     \E base \in {BasePath(root, project)} :
     \E already \in {\A m \in ScaffoldMarks(base) : m \in DOMAIN fs \/ m \in dirs} :
          /\ (project = "backend" \/ already) => ok
          /\ IF ~ok
             THEN /\ queue' = Tail(queue)
                  /\ errors' = Append(errors, [kind |-> "scaffold", path |-> <<>>])
                  /\ UNCHANGED <<disk, files, idx, pc, log>>
             ELSE /\ IF project = "frontend" /\ ~already
                     THEN /\ fs' = [m \in ScaffoldMarks(base) \ DOMAIN fs |-> Scaffolded] @@ fs
                          /\ dirs' = dirs \cup Prefixes(base \o <<<<"s","r","c">>>>)
                     ELSE UNCHANGED disk
                  /\ IF project \notin present
                     THEN /\ errors' = Append(errors, [kind |-> "fatal", path |-> <<>>])
                          /\ pc' = "done"
                          /\ log' = Append(log, RunRecord(1, FALSE, created, skipped, errors', fs'))
                          /\ UNCHANGED <<queue, files, idx>>
                     ELSE \E parsed \in {domain_files(parse_simple_format(doc), project)} :
                             /\ files' = parsed
                             /\ idx' = 1
                             /\ IF Len(parsed) = 0
                                THEN queue' = Tail(queue) /\ pc' = "project"
                                ELSE queue' = queue /\ pc' = "entries"
                             /\ UNCHANGED <<errors, log>>
  /\ UNCHANGED <<env, created, skipped, last, run, pure>>

\* one iteration of the loop of create_file_structure
LegacyCreateFile ==
  /\ impl = "legacy"
  /\ pc = "entries"
  /\ \E r \in {legacy_create_file(fs, dirs, roDirs, BasePath(root, Head(queue)), files[idx])} :
        /\ fs' = r.fs
        /\ dirs' = r.dirs
        /\ last' = [dest |-> r.dest, path |-> files[idx].path, before |-> ContentAt(fs, r.dest),
                    outcome |-> r.outcome, run |-> run,
                    repeat |-> \E j \in 1..(idx - 1) : files[j].path = files[idx].path,
                    seen |-> PathStr(r.dest) \in Range(created) \cup Range(skipped)]
        /\ created' = IF r.outcome = "created" THEN Append(created, PathStr(r.dest)) ELSE created
        /\ skipped' = IF r.outcome = "skipped" THEN Append(skipped, PathStr(r.dest)) ELSE skipped
        /\ errors' = IF r.outcome = "failed" THEN Append(errors, [kind |-> "create", path |-> files[idx].path])
                     ELSE IF r.outcome = "raised" THEN Append(errors, [kind |-> "fatal", path |-> files[idx].path])
                     ELSE errors
        /\ IF r.outcome = "raised"
           THEN /\ pc' = "done"
                /\ log' = Append(log, RunRecord(1, FALSE, created', skipped', errors', fs'))
                /\ UNCHANGED <<queue, idx>>
           ELSE /\ idx' = idx + 1
                /\ IF idx = Len(files)
                   THEN queue' = Tail(queue) /\ pc' = "project"
                   ELSE queue' = queue /\ pc' = "entries"
                /\ UNCHANGED log
  /\ UNCHANGED <<env, files, run, pure>>

\* the files found in the target directories before the first run
PreexistingPaths ==
  {BasePath(r, p) \o PathParts(l) : r \in {RelativeRoot, AbsoluteRoot}, p \in Projects,
                                    l \in {<<"a",".","t","s">>, L_User}}

InitialDisks ==
  { <<>>, [p \in PreexistingPaths |-> HandWritten], [p \in PreexistingPaths |-> ZeroSize] }

\* the directories that may be read-only: d/ of either project
ReadOnlyChoices ==
  { {}, {BasePath(r, p) \o <<<<"d">>>> : r \in {RelativeRoot, AbsoluteRoot}, p \in Projects} }

DirsOf(f, ro) == UNION {Prefixes(PathParent(p)) : p \in DOMAIN f} \cup UNION {Prefixes(p) : p \in ro}

PureIdle == op = "none" /\ arg = <<>> /\ ret = <<>>

Init ==
  /\ impl \in {"v2", "legacy"}
  /\ selection \in {"frontend", "backend", "all"}
  /\ root = IF impl = "v2" THEN RelativeRoot ELSE AbsoluteRoot
  /\ doc \in DriverDocs
  /\ present \in SUBSET Projects
  /\ roDirs \in ReadOnlyChoices
  /\ fs \in InitialDisks
  /\ disk0 = fs
  /\ dirs = DirsOf(fs, roDirs)
  /\ created = <<>>
  /\ skipped = <<>>
  /\ errors = <<>>
  /\ pc = "idle"
  /\ queue = <<>>
  /\ files = <<>>
  /\ idx = 0
  /\ last = NoEntry
  /\ run = 0
  /\ log = <<>>
  /\ PureIdle

Next ==
  \/ StartRun
  \/ GenerateFromStructure
  \/ CreateFile
  \/ PrintSummary
  \/ Terminate
  \/ LegacyGenerateProject
  \/ LegacyCreateFile

Spec == Init /\ [][Next]_vars

(***************************************************************************)
(* The functions of the generator applied to drawn inputs                   *)
(***************************************************************************)
DriverIdle ==
  /\ impl = "v2" /\ selection = "all" /\ root = RelativeRoot /\ doc = <<>> /\ present = {}
  /\ roDirs = {} /\ disk0 = <<>> /\ fs = <<>> /\ dirs = {}
  /\ created = <<>> /\ skipped = <<>> /\ errors = <<>> /\ pc = "pure" /\ queue = <<>>
  /\ files = <<>> /\ idx = 0 /\ last = NoEntry /\ run = 0 /\ log = <<>>

driver == <<env, disk, created, skipped, errors, pc, queue, files, idx, last, run, log>>

\* op, arg, ret after a call
Applied(name, result) ==
  /\ op = "none"
  /\ op' = name
  /\ ret' = result
  /\ UNCHANGED <<arg, driver>>

\* ---- the parsers on structure documents ----
ParserLines ==
  { <<"s","r","c","/","a",".","t","s">>, <<"R","E","A","D","M","E",".","m","d">>, <<"d","o","c","s","/","R","E","A","D","M","E",".","m","d">>, <<"-"," ","l","i","b","/",".","e","n","v">>, <<"*"," ","d","/","b",".","s","q","l"," ","#"," ","n","o","t","e">>,
    <<"#","#","#"," ","S","e","c","t","i","o","n">>, <<"n","o","t","e","s">>, <<"x","/","p","a","c","k","a","g","e","-","l","o","c","k",".","j","s","o","n">>, FileListMarker,
    <<"-"," ","s","r","c","/","c",".","t","s">>, <<"s","r","c","/","c",".","t","s"," ","#"," ","e","n","t","r","y">> }

\* a file list followed by another section of the document
SectionLines == <<FileListMarker, <<"s","r","c","/","a",".","t","s">>, <<"#","#"," ","N","o","t","e","s">>, <<"d","o","c","s","/","b",".","t","s">>>>

ParserLineSeqs == SeqsUpTo(ParserLines, MaxDocLines) \cup {SectionLines}

ParserDocs == {MakeDoc(ls, f) : ls \in ParserLineSeqs, f \in {"plain", "escaped"}}

InitParse == arg \in ParserDocs /\ op = "none" /\ ret = <<>> /\ DriverIdle

ParseStructureFile == Applied("parse_structure_file", parse_structure_file(arg))
ParseSimpleFormat == Applied("parse_simple_format", parse_simple_format(arg))

NextParse == ParseStructureFile \/ ParseSimpleFormat
SpecParse == InitParse /\ [][NextParse]_vars

\* ---- the classifiers on paths ----
ClassifyDirs ==
  { <<>>, <<"s","r","c","/">>, <<"s","r","c","/","t","e","s","t","s","/">>, <<"s","r","c","/","c","o","m","p","o","n","e","n","t","s","/">>, <<"s","r","c","/","s","e","r","v","i","c","e","s","/">>, <<"s","r","c","/","h","o","o","k","s","/">>,
    <<"s","r","c","/","p","a","g","e","s","/">>, <<"s","r","c","/","c","o","n","t","r","o","l","l","e","r","s","/">>, <<"s","r","c","/","m","o","d","e","l","s","/">>, <<"s","r","c","/","r","e","p","o","s","i","t","o","r","i","e","s","/">>,
    <<"s","r","c","/","m","i","d","d","l","e","w","a","r","e","/">>, <<"s","r","c","/","r","o","u","t","e","s","/">>, <<"S","R","C","/","C","o","n","t","r","o","l","l","e","r","s","/","b","a","s","e","/">>,
    <<"s","r","c","/","t","e","s","t","s","/","u","n","i","t","/","s","e","r","v","i","c","e","s","/">>, <<"s","r","c","/","p","a","g","e","s","/","c","o","n","t","r","o","l","l","e","r","s","/">>, <<"s","r","c","/","m","o","d","e","l","s","/","c","o","n","t","r","o","l","l","e","r","s","/">>,
    <<"s","r","c","/","c","o","m","p","o","n","e","n","t","s","/","h","o","o","k","s","/">> }

ClassifyNames ==
  { <<"p","a","c","k","a","g","e",".","j","s","o","n">>, <<"t","s","c","o","n","f","i","g",".","j","s","o","n">>, <<"t","s","c","o","n","f","i","g",".","n","o","d","e",".","j","s","o","n">>, <<"v","i","t","e",".","c","o","n","f","i","g",".","t","s">>,
    <<"j","e","s","t",".","c","o","n","f","i","g",".","j","s">>, <<"t","a","i","l","w","i","n","d",".","c","o","n","f","i","g",".","j","s">>, <<"U","s","e","r",".","t","s">>, <<"L","o","g","i","n",".","t","s","x">>, <<"L","o","g","i","n",".","t","e","s","t",".","t","s","x">>,
    <<"a",".","s","p","e","c",".","j","s">>, <<"B","a","s","e","S","e","r","v","i","c","e",".","t","s">>, <<"B","a","s","e","C","o","n","t","r","o","l","l","e","r",".","t","s">>, <<"B","a","s","e","M","o","d","e","l",".","t","s">>,
    <<"B","a","s","e","R","e","p","o","s","i","t","o","r","y",".","t","s">>, <<"0","0","1","_","i","n","i","t",".","s","q","l">>, <<"u","s","e","A","u","t","h",".","t","s">>, <<"M","a","k","e","f","i","l","e">>, <<>>,
    <<"c","a","c","h","e",".","s","q","l","i","t","e">> }

ClassifyPaths == {d \o n : d \in ClassifyDirs, n \in ClassifyNames}

InitClassify == arg \in ClassifyPaths /\ op = "none" /\ ret = <<>> /\ DriverIdle

Classify == Applied("determine_file_type", determine_file_type(arg))
\* _parse_simple_format classifies the last '/' segment of the line
LegacyClassify ==
  Applied("legacy_determine_file_type", legacy_determine_file_type(last_segment(Split(arg, Slash))))

NextClassify == Classify \/ LegacyClassify
SpecClassify == InitClassify /\ [][NextClassify]_vars

\* ---- the template factory on the paths the v2 driver builds ----
TemplateLines ==
  { L_UserController, L_BaseController, L_User, <<"s","r","c","/","s","e","r","v","i","c","e","s","/","B","a","s","e","S","e","r","v","i","c","e",".","t","s">>,
    <<"s","r","c","/","s","e","r","v","i","c","e","s","/","U","s","e","r","S","e","r","v","i","c","e",".","t","s">>, <<"s","r","c","/","s","e","r","v","i","c","e","s","/","u","s","e","r","_","s","e","r","v","i","c","e",".","t","s">>,
    <<"s","r","c","/","c","o","m","p","o","n","e","n","t","s","/","a","u","t","h","/","L","o","g","i","n",".","t","s","x">>, <<"s","r","c","/","t","e","s","t","s","/","u","n","i","t","/","c","o","m","p","o","n","e","n","t","s","/","a","u","t","h","/","L","o","g","i","n",".","t","e","s","t",".","t","s","x">>,
    <<"t","e","s","t","s","/","U","s","e","r","S","e","r","v","i","c","e",".","t","e","s","t",".","t","s">>, <<"s","r","c","/","i","n","d","e","x",".","t","s">>, <<"s","r","c","/","p","a","g","e","s","/","H","o","m","e",".","t","s","x">>, <<"p","a","c","k","a","g","e",".","j","s","o","n">>,
    <<"s","r","c","/","u","t","i","l","s","/","d","a","t","e","_","u","t","i","l","s",".","t","s">>, <<"s","r","c","/","h","o","o","k","s","/","u","s","e","A","u","t","h",".","t","s">>, <<"s","r","c","/","r","e","p","o","s","i","t","o","r","i","e","s","/","U","s","e","r","R","e","p","o","s","i","t","o","r","y",".","t","s">>,
    <<"s","r","c","/","m","i","d","d","l","e","w","a","r","e","/","a","u","t","h",".","t","s">>, <<"s","r","c","/","r","o","u","t","e","s","/","u","s","e","r","s",".","t","s">>, <<"s","r","c","/","d","b","/","0","0","1","_","i","n","i","t",".","s","q","l">>,
    <<"s","r","c","/","m","o","d","e","l","s","/","B","a","s","e","M","o","d","e","l",".","t","s">>, <<"s","r","c","/","r","e","p","o","s","i","t","o","r","i","e","s","/","B","a","s","e","R","e","p","o","s","i","t","o","r","y",".","t","s">> }

TemplateInputs == [root : {RelativeRoot, AbsoluteRoot}, project : Projects, line : TemplateLines]

FullPath(a) == PathJoin(BasePath(a.root, a.project), a.line)

InitTemplate == arg \in TemplateInputs /\ op = "none" /\ ret = <<>> /\ DriverIdle

\* get_template up to the dictionary lookup, with the file type the parser gave the line
ResolveTemplateKey ==
  Applied("resolve_template_key",
          resolve_template_key(FullPath(arg), determine_file_type(arg.line),
                               get_project_type(FullPath(arg))))
GenerateContent ==
  Applied("generate_content", generate_content(FullPath(arg), determine_file_type(arg.line)))
GetProjectType == Applied("get_project_type", get_project_type(FullPath(arg)))

NextTemplate == ResolveTemplateKey \/ GenerateContent \/ GetProjectType
SpecTemplate == InitTemplate /\ [][NextTemplate]_vars

\* ---- the import paths of generated tests ----
ImportPrefixes == { <<>>, <<"f","r","o","n","t","e","n","d","/","a","p","p","/">>, <<"/","p","/","f","r","o","n","t","e","n","d","/","a","p","p","/">>, <<"b","a","c","k","e","n","d","/","a","p","p","/">> }
ImportTails ==
  { <<"s","r","c","/","t","e","s","t","s","/","u","n","i","t","/","c","o","m","p","o","n","e","n","t","s","/","a","u","t","h","/","L","o","g","i","n",".","t","e","s","t",".","t","s","x">>, <<"s","r","c","/","t","e","s","t","s","/","c","o","m","p","o","n","e","n","t","s","/","a","u","t","h","/","L","o","g","i","n",".","t","e","s","t",".","t","s","x">>,
    <<"s","r","c","/","t","e","s","t","s","/","u","n","i","t","/","L","o","g","i","n",".","t","e","s","t",".","t","s","x">>, <<"s","r","c","/","t","e","s","t","s","/","L","o","g","i","n",".","t","e","s","t",".","t","s","x">>, <<"t","e","s","t","s","/","u","n","i","t","/","s","e","r","v","i","c","e","s","/","L","o","g","i","n",".","t","e","s","t",".","t","s">>,
    <<"t","e","s","t","s","/","L","o","g","i","n",".","t","e","s","t",".","t","s">>, <<"s","r","c","/","c","o","m","p","o","n","e","n","t","s","/","a","u","t","h","/","L","o","g","i","n",".","t","e","s","t",".","t","s","x">>, <<"s","r","c","/","L","o","g","i","n",".","t","e","s","t",".","t","s","x">>,
    <<"s","r","c","/","t","e","s","t","s","/","i","n","t","e","g","r","a","t","i","o","n","/","L","o","g","i","n",".","t","e","s","t",".","t","s","x">> }
ImportStems == { <<"L","o","g","i","n">>, <<"L","o","g","i","n","F","o","r","m">> }

\* the files an import refers to
ImportTargets ==
  { <<"s","r","c","/","c","o","m","p","o","n","e","n","t","s","/","a","u","t","h","/","L","o","g","i","n",".","t","s","x">>, <<"/","p","/","f","r","o","n","t","e","n","d","/","a","p","p","/","s","r","c","/","c","o","m","p","o","n","e","n","t","s","/","a","u","t","h","/","L","o","g","i","n",".","t","s","x">>,
    <<"s","r","c","/","L","o","g","i","n",".","t","s","x">>, <<"l","i","b","/","c","o","m","p","o","n","e","n","t","s","/","L","o","g","i","n",".","t","s","x">>, <<"L","o","g","i","n",".","t","s","x">>, <<"s","r","c","/","h","o","o","k","s","/","u","s","e","A","u","t","h",".","t","e","s","t",".","t","s">>,
    <<>> }

ImportInputs ==
  [path : {p \o t : p \in ImportPrefixes, t \in ImportTails}, stem : ImportStems, to : ImportTargets]

InitImport == arg \in ImportInputs /\ op = "none" /\ ret = <<>> /\ DriverIdle

CalculateComponentImport ==
  Applied("calculate_component_import", calculate_component_import(PathParts(arg.path), arg.stem))
CalculateTestImportPath ==
  Applied("calculate_test_import_path", calculate_test_import_path(PathParts(arg.path), arg.stem))
CalculateBackendImportPath ==
  Applied("calculate_backend_import_path", calculate_backend_import_path(PathParts(arg.path), arg.stem))

CalculateRelativeImport ==
  Applied("calculate_relative_import",
          calculate_relative_import(PathParts(arg.path), PathParts(arg.to)))

NextImport ==
  \/ CalculateComponentImport
  \/ CalculateTestImportPath
  \/ CalculateBackendImportPath
  \/ CalculateRelativeImport
SpecImport == InitImport /\ [][NextImport]_vars


\* ---- the template key for a filename under every file type ----
\* the tags of the FileType set as the claim lists it, in the code's spelling
ClaimedFileTypes ==
  { "component", "hook", "service", "base_service", "controller", "base_controller", "model",
    "repository", "middleware", "route", "migration", "test", "package", "tsconfig",
    "tsconfig_node", "generic" }

\* the tags the two classifiers return
FileTypes ==
  ClaimedFileTypes \cup
  { "page", "base_model", "base_repository", "vite_config", "jest_config", "tailwind_config" }

KeyLines ==
  { <<"s","r","c","/","s","e","r","v","i","c","e","s","/","B","a","s","e","S","e","r","v","i","c","e",".","t","s">>, <<"s","r","c","/","t","e","s","t","s","/","B","a","s","e","S","e","r","v","i","c","e",".","t","e","s","t",".","t","s">>,
    <<"s","r","c","/","c","o","n","t","r","o","l","l","e","r","s","/","M","y","B","a","s","e","C","o","n","t","r","o","l","l","e","r",".","t","s">>, <<"s","r","c","/","t","e","s","t","s","/","B","a","s","e","C","o","n","t","r","o","l","l","e","r",".","s","p","e","c",".","t","s">>,
    <<"s","r","c","/","B","a","s","e","S","e","r","v","i","c","e","B","a","s","e","C","o","n","t","r","o","l","l","e","r",".","t","s">>, <<"s","r","c","/","s","e","r","v","i","c","e","s","/","U","s","e","r","S","e","r","v","i","c","e",".","t","s">>, <<"p","a","c","k","a","g","e",".","j","s","o","n">>,
    <<"s","r","c","/","t","e","s","t","s","/","u","s","e","r",".","i","n","t","e","g","r","a","t","i","o","n",".","t","e","s","t",".","t","s">>, <<"s","r","c","/","t","e","s","t","s","/","e","2","e","_","i","n","t","e","g","r","a","t","i","o","n",".","t","e","s","t",".","t","s">>,
    <<"s","r","c","/","t","e","s","t","s","/","l","o","g","i","n",".","e","2","e",".","t","s">>, <<"s","r","c","/","t","e","s","t","s","/","p","e","r","f","o","r","m","a","n","c","e","_","e","2","e",".","t","e","s","t",".","t","s">>,
    <<"s","r","c","/","t","e","s","t","s","/","a","p","i",".","p","e","r","f","o","r","m","a","n","c","e",".","t","e","s","t",".","t","s">>, <<"s","r","c","/","t","e","s","t","s","/","U","p","l","o","a","d",".","t","e","s","t",".","t","s">>,
    <<"s","r","c","/","t","e","s","t","s","/","L","o","g","i","n",".","t","e","s","t",".","t","s","x">>, <<"s","r","c","/","t","e","s","t","s","/","i","n","t","e","g","r","a","t","i","o","n","/","L","o","g","i","n",".","t","e","s","t",".","t","s","x">>,
    <<"s","r","c","/","i","n","d","e","x",".","t","s">>, <<"s","r","c","/","t","y","p","e","s",".","t","s">>, <<"s","r","c","/","a","p","p",".","c","o","n","f","i","g",".","t","s">>, <<"s","r","c","/","h","e","l","p","e","r","s",".","t","s">>,
    <<"s","r","c","/","c","o","n","s","t","a","n","t","s","_","u","t","i","l","s",".","t","s">>, <<"s","r","c","/","m","y","t","y","p","e","s","_","c","o","n","f","i","g",".","t","s">>, <<"s","r","c","/","m","a","i","n",".","t","s">>,
    <<"s","r","c","/","p","a","g","e","s","/","H","o","m","e",".","t","s","x">>, <<"s","r","c","/","d","b","/","0","0","1","_","i","n","i","t",".","s","q","l">>, <<"s","r","c","/","a","p","p",".","c","s","s">>, <<"d","a","t","a","/","x",".","j","s","o","n">>, <<".","e","n","v">>, <<"s","r","c","/","i","n","d","e","x">> }

KeyInputs ==
  [root : {RelativeRoot, AbsoluteRoot}, project : Projects, line : KeyLines, type : FileTypes]

InitKey == arg \in KeyInputs /\ op = "none" /\ ret = <<>> /\ DriverIdle

\* _resolve_template_key called with a file type chosen by the caller
ResolveTemplateKeyFor ==
  Applied("resolve_template_key_for",
          resolve_template_key(FullPath(arg), arg.type, get_project_type(FullPath(arg))))

\* generate_content for the same inputs, as the text written to the file
GenerateContentFor ==
  Applied("generate_content_for", generate_content_text(FullPath(arg), arg.type))

NextKey == ResolveTemplateKeyFor \/ GenerateContentFor
SpecKey == InitKey /\ [][NextKey]_vars
(***************************************************************************)
(* Properties                                                               *)
(***************************************************************************)
EntryProcessed == last.run = run /\ last.outcome # "none"

\* C1: a destination file that exists with non-zero size when its entry is
\* processed keeps its content, and the entry is recorded as skipped.
C1_NeverOverwritten ==
  (EntryProcessed /\ last.before.tpl \notin {"absent", "empty"}) =>
     /\ last.outcome = "skipped"
     /\ ContentAt(fs, last.dest) = last.before
     /\ Len(skipped) > 0
     /\ skipped[Len(skipped)] = PathStr(last.dest)

C1_Witness == EntryProcessed /\ last.before = HandWritten /\ last.outcome = "skipped"

\* the run returned from main, with exit code 0 or 1
EndedByItself(r) == r.exit \in {0, 1}

NoScaffoldError(r) == \A e \in Range(r.errors) : e.kind # "scaffold"

C3_ThreeEntriesThreeFiles ==
  ( /\ pc = "done" /\ run = 1 /\ selection = "backend" /\ "backend" \in present /\ disk0 = <<>>
    /\ \/ impl = "v2" /\ doc = MakeDoc(ThreeLines, "plain")
       \/ impl = "legacy" /\ doc = MakeDoc(ThreeLines, "marked") ) =>
     /\ Len(files) = 3
     /\ Len(log[1].created) = 3
     /\ Cardinality(DOMAIN fs) = 3

\* C10: a failure on one entry is reported with the path of the entry, the
\* entry is in neither list, and the failure does not end the run: the loop
\* goes on with the entries after it.
C10_FailureContained ==
  (EntryProcessed /\ last.outcome \in {"failed", "raised"}) =>
     /\ [kind |-> "create", path |-> last.path] \in Range(errors)
     /\ [kind |-> "fatal", path |-> last.path] \notin Range(errors)
     /\ PathStr(last.dest) \notin Range(created) \cup Range(skipped)

\* C5: no entry of a parsed sequence names a file of the skip list.
C5_NoSkipListEntry ==
  op \in {"parse_structure_file", "parse_simple_format"} =>
     \A i \in 1..Len(ret) : PathName(PathParts(ret[i].path)) \notin skip_items

\* C9 as stated: every path gets one tag of the listed FileType set.
C9_TagInClaimedSet == op \in {"determine_file_type", "legacy_determine_file_type"} => ret \in ClaimedFileTypes

\* C9 amended: every path gets one tag, of the listed set extended with page,
\* base_model, base_repository, vite_config, jest_config and tailwind_config.
C9_TagInFileTypes == op \in {"determine_file_type", "legacy_determine_file_type"} => ret \in FileTypes

C9_Witness == op = "determine_file_type" /\ ret = "page" /\ arg = <<"s","r","c","/","p","a","g","e","s","/","L","o","g","i","n",".","t","s","x">>

\* C4: the controller generated for src/controllers/UserController.ts
\* declares the type name UserController.
C4_ControllerDeclaresUserController ==
  (op = "generate_content" /\ arg.line = L_UserController) =>
     ret.tpl = "controller" /\ ret.name = <<"U","s","e","r","C","o","n","t","r","o","l","l","e","r">>

\* C7: a file of the frontend project whose name contains 'baseservice' gets
\* the frontend base-service key, also under a relative project root.
C7_FrontendBaseServiceKey ==
  ( /\ op = "resolve_template_key" /\ arg.project = "frontend"
    /\ Contains(Lower(PathName(PathParts(arg.line))), <<"b","a","s","e","s","e","r","v","i","c","e">>) ) =>
     ret = "frontend_base_service"

\* C8: an entry of file type service gets the backend service key in the
\* backend project and the frontend service key in the frontend project.
C8_ServiceKeyByProject ==
  (op = "resolve_template_key" /\ determine_file_type(arg.line) = "service") =>
     ret = (IF arg.project = "frontend" THEN "frontend_service" ELSE "backend_service")

\* C6: for frontend/app/src/tests/unit/components/auth/Login.test.tsx and the
\* stem Login, the import path of the generated test is
\* ../../../components/auth/Login.
C6_LoginImportPath ==
  ( /\ op \in {"calculate_component_import", "calculate_test_import_path"}
    /\ arg.path = <<"f","r","o","n","t","e","n","d","/","a","p","p","/","s","r","c","/","t","e","s","t","s","/","u","n","i","t","/","c","o","m","p","o","n","e","n","t","s","/","a","u","t","h","/","L","o","g","i","n",".","t","e","s","t",".","t","s","x">>
    /\ arg.stem = <<"L","o","g","i","n">> ) =>
     ret = <<".",".","/",".",".","/",".",".","/","c","o","m","p","o","n","e","n","t","s","/","a","u","t","h","/","L","o","g","i","n">>

\* the projects the command line asks for
Requested == IF selection = "all" THEN Projects ELSE {selection}

\* the entries the driver gets from the document of a project
EntriesOf(project) ==
  IF impl = "v2" THEN parse_structure_file(doc)
  ELSE domain_files(parse_simple_format(doc), project)

Destinations(project) ==
  {PathStr(PathJoin(BasePath(root, project), EntriesOf(project)[i].path)) :
     i \in 1..Len(EntriesOf(project))}

Processed(project) == Destinations(project) \subseteq Range(created) \cup Range(skipped)

\* the run reported nothing but missing documents
OnlyDocumentErrors == \A e \in Range(errors) : e.kind \in {"parse", "fatal"} /\ e.path = <<>>

\* C11: with both projects selected and the document of one of them missing,
\* every entry of the other project's document is created or skipped,
\* whichever document is the missing one.
C11_OtherProjectProcessed ==
  (pc = "done" /\ selection = "all" /\ Cardinality(present) = 1 /\ OnlyDocumentErrors) =>
     \A p \in present : Processed(p)

\* C12: a run that reaches its summary exits with 0, and a run for which no
\* requested project has its document exits with a non-zero code.
C12_ExitCode ==
  pc = "done" =>
     /\ log[run].summary => log[run].exit = 0
     /\ Requested \cap present = {} => log[run].exit # 0

\* C13: every run ends with the summary of the created and skipped files,
\* also when entries or a whole project failed.
C13_SummaryAlways ==
  pc = "done" =>
     /\ log[run].summary
     /\ log[run].created = created
     /\ log[run].skipped = skipped

PathsOf(entries) == [i \in 1..Len(entries) |-> entries[i].path]

\* the paths occur in the text one after the other
RECURSIVE InDocumentOrder(_, _)
InDocumentOrder(paths, text) ==
  IF Len(paths) = 0 THEN TRUE
  ELSE /\ Find(text, Head(paths)) > 0
       /\ InDocumentOrder(Tail(paths), From(text, Find(text, Head(paths)) - 1 + Len(Head(paths))))

\* the entries are in the order of the document and are processed in it
ProcessedInDocumentOrder ==
  /\ pc = "entries" => InDocumentOrder(PathsOf(files), doc)
  /\ (EntryProcessed /\ pc = "entries" /\ idx > 1) => last.path = files[idx - 1].path

\* C14 as stated: entries are emitted and processed in document order, and
\* the second attempt at a path listed twice is always a skip.
C14_SecondAttemptAlwaysSkips ==
  /\ ProcessedInDocumentOrder
  /\ (EntryProcessed /\ last.repeat) => last.outcome = "skipped"

\* C14 amended: entries are emitted and processed in document order without
\* de-duplication; the second attempt at a path listed twice is a skip when
\* the first attempt created or skipped the file, and fails to write, as the
\* first did, otherwise.
C14_SecondAttemptRepeatsFirst ==
  /\ ProcessedInDocumentOrder
  /\ (EntryProcessed /\ last.repeat /\ last.seen) => last.outcome = "skipped"
  /\ (EntryProcessed /\ last.repeat /\ ~last.seen) => last.outcome = "failed"

C14_Witness ==
  /\ EntryProcessed /\ last.repeat /\ last.seen /\ last.outcome = "skipped"
  /\ PathStr(last.dest) \in Range(created)
  /\ idx = 3 /\ files[1].path = files[2].path

\* the lines of a document that lie in the section the FILE_LIST marker
\* opens: after the marker and before the next heading of its level
RECURSIVE InFileList(_, _)
InFileList(ls, inside) ==
  IF Len(ls) = 0 THEN {}
  ELSE IF Contains(Head(ls), FileListMarker) THEN InFileList(Tail(ls), TRUE)
  ELSE IF StartsWith(Strip(Head(ls)), <<"#","#"," ">>) THEN InFileList(Tail(ls), FALSE)
  ELSE (IF inside THEN {Head(ls)} ELSE {}) \cup InFileList(Tail(ls), inside)

\* every entry comes from one of the given lines
EntriesFrom(entries, ls) ==
  \A i \in 1..Len(entries) : \E l \in ls : Contains(l, entries[i].path)

\* C15: every entry of the parsed sequence comes from a line of the section
\* the FILE_LIST marker opens; no line before the marker and no line of a
\* later section gives an entry.
C15_OnlyFileListSection ==
  op \in {"parse_structure_file", "parse_simple_format"} =>
     \A ls \in ParserLineSeqs, f \in {"plain", "escaped"} :
        arg = MakeDoc(ls, f) => EntriesFrom(ret, InFileList(ls, FALSE))

\* lines with a list marker, a trailing comment or both, and the path they name
DecoratedLines ==
  { [line |-> <<"-"," ","s","r","c","/","c",".","t","s">>, bare |-> <<"s","r","c","/","c",".","t","s">>],
    [line |-> <<"s","r","c","/","c",".","t","s"," ","#"," ","e","n","t","r","y">>, bare |-> <<"s","r","c","/","c",".","t","s">>],
    [line |-> <<"*"," ","d","/","b",".","s","q","l"," ","#"," ","n","o","t","e">>, bare |-> <<"d","/","b",".","s","q","l">>] }

Undecorated(path) ==
  ~StartsWith(path, <<"-"," ">>) /\ ~StartsWith(path, <<"*"," ">>) /\ ~Contains(path, <<"#">>)

\* C16: the path of an entry carries neither the list marker nor the comment
\* of its line; a document of one such line gives the bare path.
C16_BarePath ==
  op \in {"parse_structure_file", "parse_simple_format"} =>
     /\ \A i \in 1..Len(ret) : Undecorated(ret[i].path)
     /\ \A d \in DecoratedLines :
           arg = (IF op = "parse_structure_file" THEN d.line
                  ELSE MakeDoc(<<FileListMarker, d.line>>, "plain")) =>
              PathsOf(ret) = <<d.bare>>

\* the lower-cased filename and extension of a path
FileNameOf(path) == Lower(PathName(PathParts(path)))
ExtensionOf(path) == Lower(PathSuffix(PathParts(path)))

ManifestNames == { <<"p","a","c","k","a","g","e",".","j","s","o","n">>, <<"t","s","c","o","n","f","i","g",".","j","s","o","n">>, <<"t","s","c","o","n","f","i","g",".","n","o","d","e",".","j","s","o","n">> }
ConfigNames == ManifestNames \cup { <<"v","i","t","e",".","c","o","n","f","i","g",".","t","s">>, <<"j","e","s","t",".","c","o","n","f","i","g",".","j","s">>, <<"t","a","i","l","w","i","n","d",".","c","o","n","f","i","g",".","j","s">> }

ManifestTag(name) ==
  IF name = <<"p","a","c","k","a","g","e",".","j","s","o","n">> THEN "package"
  ELSE IF name = <<"t","s","c","o","n","f","i","g",".","j","s","o","n">> THEN "tsconfig" ELSE "tsconfig_node"

HasTestIndicator(path) ==
  \/ Contains(Lower(path), <<"/","t","e","s","t","s","/">>)
  \/ Contains(FileNameOf(path), <<".","t","e","s","t",".">>)
  \/ Contains(FileNameOf(path), <<".","s","p","e","c",".">>)

\* C17 as stated: the three manifest names get their tag in any directory,
\* and every other path with a test indicator is classified test.
C17_ManifestThenTest ==
  op = "determine_file_type" =>
     /\ FileNameOf(arg) \in ManifestNames => ret = ManifestTag(FileNameOf(arg))
     /\ (HasTestIndicator(arg) /\ FileNameOf(arg) \notin ManifestNames) => ret = "test"

\* C17 amended: the six configuration names (the manifests and vite.config.ts,
\* jest.config.js, tailwind.config.js) get their tag in any directory, and
\* every other path with a test indicator is classified test.
C17_ConfigThenTest ==
  op = "determine_file_type" =>
     /\ FileNameOf(arg) \in ManifestNames => ret = ManifestTag(FileNameOf(arg))
     /\ FileNameOf(arg) \in ConfigNames \ ManifestNames =>
           ret \in {"vite_config", "jest_config", "tailwind_config"}
     /\ (HasTestIndicator(arg) /\ FileNameOf(arg) \notin ConfigNames) => ret = "test"

C17_Witness ==
  op = "determine_file_type" /\ arg = <<"s","r","c","/","t","e","s","t","s","/","u","n","i","t","/","s","e","r","v","i","c","e","s","/","B","a","s","e","S","e","r","v","i","c","e",".","t","s">> /\ ret = "test"

\* a path no configuration or test rule applies to
DirectoryRuled(path) == FileNameOf(path) \notin ConfigNames /\ ~HasTestIndicator(path)

InSegment(path, segment) == Contains(Lower(path), segment)

ComponentRule(path) == InSegment(path, <<"/","c","o","m","p","o","n","e","n","t","s","/">>) /\ EndsWith(FileNameOf(path), <<".","t","s","x">>)

ControllerTag(path) ==
  IF Contains(FileNameOf(path), <<"b","a","s","e","c","o","n","t","r","o","l","l","e","r">>) THEN "base_controller" ELSE "controller"

\* C18 as stated: a non-test path with /controllers/ and without a
\* components(.tsx), services or hooks match is a controller, and a path under
\* /components/ without the .tsx suffix is classified by the later rules.
C18_ControllersAfterHooks ==
  (op = "determine_file_type" /\ DirectoryRuled(arg)) =>
     /\ ( /\ InSegment(arg, <<"/","c","o","n","t","r","o","l","l","e","r","s","/">>)
          /\ ~ComponentRule(arg)
          /\ ~InSegment(arg, <<"/","s","e","r","v","i","c","e","s","/">>)
          /\ ~InSegment(arg, <<"/","h","o","o","k","s","/">>) ) => ret = ControllerTag(arg)
     /\ (InSegment(arg, <<"/","c","o","m","p","o","n","e","n","t","s","/">>) /\ ~EndsWith(FileNameOf(arg), <<".","t","s","x">>)) =>
           ret = determine_file_type(Remove(Lower(arg), <<"/","c","o","m","p","o","n","e","n","t","s">>))

\* C18 amended: the order is components(.tsx), services, hooks, pages,
\* controllers, ...: a non-test path with /controllers/ and without a match
\* of the four earlier rules is a controller.
C18_ControllersAfterPages ==
  (op = "determine_file_type" /\ DirectoryRuled(arg)) =>
     /\ ( /\ InSegment(arg, <<"/","c","o","n","t","r","o","l","l","e","r","s","/">>)
          /\ ~ComponentRule(arg)
          /\ ~InSegment(arg, <<"/","s","e","r","v","i","c","e","s","/">>)
          /\ ~InSegment(arg, <<"/","h","o","o","k","s","/">>)
          /\ ~InSegment(arg, <<"/","p","a","g","e","s","/">>) ) => ret = ControllerTag(arg)
     /\ InSegment(arg, <<"/","p","a","g","e","s","/">>) /\ ~ComponentRule(arg) /\ ~InSegment(arg, <<"/","s","e","r","v","i","c","e","s","/">>)
          /\ ~InSegment(arg, <<"/","h","o","o","k","s","/">>) => ret = "page"
     /\ (InSegment(arg, <<"/","c","o","m","p","o","n","e","n","t","s","/">>) /\ ~EndsWith(FileNameOf(arg), <<".","t","s","x">>)) =>
           ret = determine_file_type(Remove(Lower(arg), <<"/","c","o","m","p","o","n","e","n","t","s">>))

C18_Witness ==
  op = "determine_file_type" /\ arg = <<"s","r","c","/","m","o","d","e","l","s","/","c","o","n","t","r","o","l","l","e","r","s","/","U","s","e","r",".","t","s">> /\ ret = "controller"

DirectorySegments ==
  { <<"/","s","e","r","v","i","c","e","s","/">>, <<"/","h","o","o","k","s","/">>, <<"/","p","a","g","e","s","/">>, <<"/","c","o","n","t","r","o","l","l","e","r","s","/">>, <<"/","m","o","d","e","l","s","/">>,
    <<"/","r","e","p","o","s","i","t","o","r","i","e","s","/">>, <<"/","m","i","d","d","l","e","w","a","r","e","/">>, <<"/","r","o","u","t","e","s","/">> }

NoRuleApplies(path) ==
  /\ DirectoryRuled(path)
  /\ ~ComponentRule(path)
  /\ \A s \in DirectorySegments : ~InSegment(path, s)

\* C19: a path no earlier rule applies to is a migration exactly when the
\* extension of its filename is .sql, and generic otherwise.
C19_SqlExtension ==
  /\ (op = "determine_file_type" /\ NoRuleApplies(arg)) =>
        ret = (IF ExtensionOf(arg) = <<".","s","q","l">> THEN "migration" ELSE "generic")
  /\ (op = "legacy_determine_file_type" /\ ret \in {"migration", "generic"}) =>
        (ret = "migration" <=> ExtensionOf(arg) = <<".","s","q","l">>)

NotBaseNamed(path) ==
  ~Contains(FileNameOf(path), <<"b","a","s","e","s","e","r","v","i","c","e">>) /\ ~Contains(FileNameOf(path), <<"b","a","s","e","c","o","n","t","r","o","l","l","e","r">>)

UnitTestKeys == {"react_test", "backend_test"}

\* the unit-test key follows the project: never the frontend key for a backend
\* entry, and the frontend key for a frontend entry under an absolute root
UnitKeyByProject ==
  /\ ret \in UnitTestKeys
  /\ ret = "react_test" => arg.project = "frontend"
  /\ (arg.root = AbsoluteRoot /\ arg.project = "frontend") => ret = "react_test"

StemOf(path) == Lower(PathStem(PathParts(path)))

\* C22: a generic entry gets the index key when its stem is exactly 'index',
\* else types for a stem containing 'types', else constants for 'constants' or
\* 'config', else utility for 'utils' or 'helpers', else generic.
C22_GenericByStem ==
  (op = "resolve_template_key_for" /\ arg.type = "generic" /\ NotBaseNamed(arg.line)) =>
     ret = (IF StemOf(arg.line) = <<"i","n","d","e","x">> THEN "index"
            ELSE IF Contains(StemOf(arg.line), <<"t","y","p","e","s">>) THEN "types"
            ELSE IF Contains(StemOf(arg.line), <<"c","o","n","s","t","a","n","t","s">>) \/ Contains(StemOf(arg.line), <<"c","o","n","f","i","g">>)
                 THEN "constants"
            ELSE IF Contains(StemOf(arg.line), <<"u","t","i","l","s">>) \/ Contains(StemOf(arg.line), <<"h","e","l","p","e","r","s">>)
                 THEN "utility"
            ELSE "generic")

\* the file types C23 leaves to other rules: service, test, generic and the
\* manifest and configuration kinds
KeyedElsewhere ==
  { "service", "test", "generic", "package", "tsconfig", "tsconfig_node",
    "vite_config", "jest_config", "tailwind_config" }

\* the key of the same name for a file type
OwnKeys(file_type) ==
  IF file_type = "component" THEN {"react_component"}
  ELSE IF file_type = "hook" THEN {"react_hook"}
  ELSE IF file_type = "base_service" THEN {"frontend_base_service", "backend_base_service"}
  ELSE {file_type}

\* C23: a line the classifier gives a file type other than service, test,
\* generic and the manifest/config kinds resolves to the key of that type,
\* never to the generic key.
C23_OwnKey ==
  (op = "resolve_template_key" /\ determine_file_type(arg.line) \notin KeyedElsewhere) =>
     ret \in OwnKeys(determine_file_type(arg.line)) /\ ret # "generic"

\* the directory segments of a path below its first src directory
DirsBelowSrc(path) ==
  SubSeq(PathParent(PathParts(path)), IndexOf(PathParent(PathParts(path)), <<"s","r","c">>) + 1,
         Len(PathParent(PathParts(path))))

HasAnchor(path) == IndexOf(PathParent(PathParts(path)), <<"s","r","c">>) > 0

\* n parent-climb segments
Climbs(n) == [i \in 1..n |-> <<".",".">>]

\* the number of occurrences of sub in s
RECURSIVE Count(_, _)
Count(s, sub) ==
  IF Find(s, sub) = 0 THEN 0 ELSE 1 + Count(SubSeq(s, Find(s, sub) + Len(sub), Len(s)), sub)

\* C24: with src in both paths the import is `up` climb segments, the
\* target's directory segments below src and the target's stem, joined with
\* '/', where `up` is the number of directory segments of the source below src.
C24_ClimbThenTarget ==
  (op = "calculate_relative_import" /\ HasAnchor(arg.path) /\ HasAnchor(arg.to)) =>
     /\ ret = Join(Climbs(Len(DirsBelowSrc(arg.path))) \o DirsBelowSrc(arg.to)
                   \o <<PathStem(PathParts(arg.to))>>, Slash)
     /\ Count(ret, ParentClimb) = Len(DirsBelowSrc(arg.path))

HasTestsRoot(path) == IndexOf(PathParts(path), <<"t","e","s","t","s">>) > 0

\* C25: without the anchor in the source or the target path the result is
\* a reference without a climb segment that ends with the target's stem: the
\* target path without its suffix for calculate_relative_import, './' and the
\* stem for the helpers of the test templates, whose anchor is tests.
C25_FallbackWithoutClimb ==
  /\ (op = "calculate_relative_import" /\ ~(HasAnchor(arg.path) /\ HasAnchor(arg.to))) =>
        /\ ~Contains(ret, ParentClimb)
        /\ EndsWith(ret, PathStem(PathParts(arg.to)))
        /\ Len(ret) > 0
  /\ ( /\ op \in {"calculate_component_import", "calculate_backend_import_path",
                  "calculate_test_import_path"}
       /\ ~HasTestsRoot(arg.path) ) => ret = <<".","/">> \o arg.stem

C25_Witness ==
  /\ op = "calculate_relative_import"
  /\ arg.path = <<"t","e","s","t","s","/","u","n","i","t","/","s","e","r","v","i","c","e","s","/","L","o","g","i","n",".","t","e","s","t",".","t","s">>
  /\ arg.to = <<"s","r","c","/","c","o","m","p","o","n","e","n","t","s","/","a","u","t","h","/","L","o","g","i","n",".","t","s","x">>
  /\ ret = <<"s","r","c","/","c","o","m","p","o","n","e","n","t","s","/","a","u","t","h","/","L","o","g","i","n">>

\* ---- a run that nothing interrupts, as a function of the disk before it ----
\* the files, the directories and created_files so far; raised: an exception
\* has ended the run
EntryResult(acc, base, entry) ==
  IF impl = "v2" THEN create_file(acc.fs, acc.dirs, roDirs, base, entry)
  ELSE legacy_create_file(acc.fs, acc.dirs, roDirs, base, entry)

AfterEntry(acc, r) ==
  [fs |-> r.fs, dirs |-> r.dirs,
   created |-> IF r.outcome = "created" THEN Append(acc.created, PathStr(r.dest)) ELSE acc.created,
   raised |-> r.outcome = "raised"]

RECURSIVE AfterEntries(_, _, _)
AfterEntries(acc, base, entries) ==
  IF Len(entries) = 0 \/ acc.raised THEN acc
  ELSE AfterEntries(AfterEntry(acc, EntryResult(acc, base, Head(entries))), base, Tail(entries))

RECURSIVE AfterProjects(_, _)
AfterProjects(acc, order) ==
  IF Len(order) = 0 \/ acc.raised THEN acc
  ELSE IF Head(order) \notin present
       THEN (IF impl = "v2" THEN AfterProjects(acc, Tail(order)) ELSE [acc EXCEPT !.raised = TRUE])
  ELSE AfterProjects(AfterEntries(acc, BasePath(root, Head(order)), EntriesOf(Head(order))),
                     Tail(order))

Uninterrupted ==
  AfterProjects([fs |-> disk0, dirs |-> DirsOf(disk0, roDirs), created |-> <<>>, raised |-> FALSE],
                ProjectOrder(impl, selection))

\* the run does not depend on the outcome of the external scaffolder
NoScaffolding == impl = "v2" \/ selection = "backend"

EntryCountOf(project) ==
  IF project \in Requested \cap present THEN Len(EntriesOf(project)) ELSE 0

EntryCount == EntryCountOf("frontend") + EntryCountOf("backend")

\* main has built the generator and processed no entry yet
RunStarted == pc = "project" /\ idx = 0

\* C27: both lists are empty when a run starts, the counts of a run never
\* exceed the number of entries of that run, and a file reported as created
\* by the first run is not reported as created by the second.
C27_ListsPerRun ==
  /\ RunStarted => (created = <<>> /\ skipped = <<>>)
  /\ Len(created) + Len(skipped) <= EntryCount
  /\ \A k \in 1..Len(log) : Len(log[k].created) + Len(log[k].skipped) <= EntryCount
  /\ Len(log) >= 2 => Range(log[1].created) \cap Range(log[2].created) = {}

C27_Witness ==
  /\ RunStarted /\ run = 2
  /\ Len(log[1].created) > 0 /\ Len(log[1].skipped) > 0
  /\ created = <<>> /\ skipped = <<>>

\* C28: an entry whose destination exists with size zero is written like an
\* entry whose destination is absent: the file gets the rendered body and the
\* path is recorded as created, not as skipped.
C28_EmptyFileWritten ==
  (EntryProcessed /\ last.before = ZeroSize) =>
     /\ last.outcome = "created"
     /\ ContentAt(fs, last.dest).tpl \notin {"empty", "absent"}
     /\ Len(created) > 0
     /\ created[Len(created)] = PathStr(last.dest)
     /\ PathStr(last.dest) \notin Range(skipped)

C28_Witness ==
  /\ EntryProcessed /\ last.before = ZeroSize /\ last.outcome = "created"
  /\ ContentAt(fs, last.dest).tpl \notin {"empty", "absent"}

\* the destination of the entry the loop is at
CurrentDest == PathJoin(BasePath(root, Head(queue)), files[idx].path)

\* the entries of a project the run has been through: none when its document
\* is missing or the scaffolder failed
ProcessedOf(project) ==
  IF project \notin present THEN 0
  ELSE IF project = "frontend" /\ \E e \in Range(errors) : e.kind = "scaffold" THEN 0
  ELSE Len(EntriesOf(project))

ProcessedIn(order, k) ==
  IF k = 0 THEN 0
  ELSE IF k = 1 THEN ProcessedOf(order[1])
  ELSE ProcessedOf(order[1]) + ProcessedOf(order[2])

\* the number of entries processed so far in the run
ProcessedSoFar ==
  ProcessedIn(ProjectOrder(impl, selection), Len(ProjectOrder(impl, selection)) - Len(queue))
  + (IF pc = "entries" THEN idx - 1 ELSE 0)

\* processing the current entry appends its destination to one of the two
\* lists or to none, and leaves every other file as it was
EntryAccounted ==
  /\ \/ created' = Append(created, PathStr(CurrentDest)) /\ skipped' = skipped
     \/ skipped' = Append(skipped, PathStr(CurrentDest)) /\ created' = created
     \/ created' = created /\ skipped' = skipped /\ Len(errors') = Len(errors) + 1
  /\ \A p \in (DOMAIN fs \cup DOMAIN fs') \ {CurrentDest} : ContentAt(fs', p) = ContentAt(fs, p)

\* C29: while a run is processing, the two lists together are never longer
\* than the number of entries processed so far, and every step that processes
\* an entry adds its destination to exactly one list or reports a failure,
\* and changes no file but the destination.
C29_Accounting ==
  /\ [](pc \in {"project", "entries"} => Len(created) + Len(skipped) <= ProcessedSoFar)
  /\ [][(pc = "entries" /\ pc' # "killed") => EntryAccounted]_vars

C29_Witness ==
  /\ EntryProcessed /\ last.outcome = "failed" /\ pc = "entries"
  /\ Len(created) + Len(skipped) = 1
  /\ ProcessedSoFar = 2

\* C30: every key the resolver returns is registered or is 'generic', and the
\* content generated for any path and file type is not empty.
C30_KeyServedAndBodyNonEmpty ==
  /\ op = "resolve_template_key_for" => ret \in registered_templates \cup {"generic"}
  /\ op = "generate_content_for" => Len(ret) > 0

C30_Witness ==
  /\ op = "generate_content_for"
  /\ arg.line = <<".","e","n","v">>
  /\ arg.type = "migration"
  /\ ret = <<"#"," ",".","e","n","v","\n","#"," ","T","O","D","O",":"," ","I","m","p","l","e","m","e","n","t"," ",".","e","n","v","\n">>
====
